---- MODULE Spec2Model ----
(***************************************************************************)
(* A model of the atomic-css engine: the CSS tokenizer (css-parser.ts),    *)
(* the CSS processor (css-processor.ts), the utility layer builder         *)
(* (layer-builder.ts) and the build context that wires them (index.ts).    *)
(*                                                                         *)
(* Text is a sequence of one-character strings, so that tokenizing,        *)
(* regular-expression matching, escaping and concatenation are computed    *)
(* character by character as the code computes them.                       *)
(***************************************************************************)
EXTENDS Integers, Sequences, FiniteSets, TLC

(***************************************************************************)
(* Text helpers: the String methods the code calls.                        *)
(***************************************************************************)

\* /\s/ on one character
IsSpace(ch) == ch \in {" ", "\n", "\t"}

\* [a-z]
IsLower(ch) == ch \in {"a","b","c","d","e","f","g","h","i","j","k","l","m",
                       "n","o","p","q","r","s","t","u","v","w","x","y","z"}

\* [0-9]
IsDigit(ch) == ch \in {"0","1","2","3","4","5","6","7","8","9"}

\* [A-Z]
IsUpper(ch) == ch \in {"A","B","C","D","E","F","G","H","I","J","K","L","M",
                       "N","O","P","Q","R","S","T","U","V","W","X","Y","Z"}

\* \w
IsWord(ch) == IsLower(ch) \/ IsUpper(ch) \/ IsDigit(ch) \/ ch = "_"

\* String.prototype.slice(from, to) with 0-based, end-exclusive, clamped indexes
Slice(s, from, to) ==
  LET lo == IF from < 0 THEN 0 ELSE from
      hi == IF to > Len(s) THEN Len(s) ELSE to
  IN  IF hi <= lo THEN << >> ELSE SubSeq(s, lo + 1, hi)

\* String.prototype.startsWith
StartsWith(s, p) == Len(p) <= Len(s) /\ SubSeq(s, 1, Len(p)) = p

\* String.prototype.endsWith
EndsWith(s, p) == Len(p) <= Len(s) /\ SubSeq(s, Len(s) - Len(p) + 1, Len(s)) = p

\* String.prototype.indexOf(p, from): the 0-based index of the first
\* occurrence of p at or after from, or -1
IndexOf(s, p, from) ==
  LET hits == {k \in from..(Len(s) - Len(p)) : SubSeq(s, k + 1, k + Len(p)) = p}
  IN  IF hits = {} THEN -1 ELSE CHOOSE k \in hits : \A j \in hits : k <= j

\* String.prototype.includes
Includes(s, p) == IndexOf(s, p, 0) >= 0

\* String.prototype.trim
Trim(s) ==
  LET keep == {k \in 1..Len(s) : ~IsSpace(s[k])}
  IN  IF keep = {} THEN << >>
      ELSE LET lo == CHOOSE k \in keep : \A j \in keep : k <= j
               hi == CHOOSE k \in keep : \A j \in keep : k >= j
           IN  SubSeq(s, lo, hi)

\* the concatenation of the texts ss[lo..hi]
RECURSIVE FlattenRange(_, _, _)
FlattenRange(ss, lo, hi) ==
  IF lo > hi THEN << >>
  ELSE IF lo = hi THEN ss[lo]
  ELSE FlattenRange(ss, lo, (lo + hi) \div 2) \o FlattenRange(ss, (lo + hi) \div 2 + 1, hi)

\* Array.prototype.join('')
Flatten(ss) == FlattenRange(ss, 1, Len(ss))

\* Array.prototype.join(sep)
Join(ss, sep) ==
  Flatten([k \in 1..(2 * Len(ss) - 1) |-> IF k % 2 = 1 THEN ss[(k + 1) \div 2] ELSE sep])

\* what `text += undefined` appends in JavaScript
UndefinedText == <<"u","n","d","e","f","i","n","e","d">>

\* A loop of the code is modelled by its body, an operator Step from the
\* loop's variables (a record with a field done, TRUE once the loop has been
\* left) to their values after one iteration.  Iterate runs at most n
\* iterations from s; n is an upper bound on the iterations the loop can make.
RECURSIVE Iterate(_, _, _)
Iterate(Step(_), s, n) ==
  IF n <= 0 \/ s.done THEN s
  ELSE IF n = 1 THEN Step(s)
  ELSE Iterate(Step, Iterate(Step, s, n \div 2), n - (n \div 2))

(***************************************************************************)
(* css-parser.ts: the tokenizer.  A reader is the text and the index i of  *)
(* the next character (0-based, as in the code); read() returns the next   *)
(* token and the new index.                                                *)
(***************************************************************************)

\* css[i] appended to a string: the character, or "undefined" past the end
CharAt(css, i) == IF i >= 0 /\ i < Len(css) THEN << css[i + 1] >> ELSE UndefinedText

appendNormalized(result, ch) ==
  IF ~IsSpace(ch) THEN Append(result, ch)
  ELSE IF result = << >> \/ ~IsSpace(result[Len(result)]) THEN Append(result, " ")
  ELSE result

\* the inner while loop of the string-literal branch: skip to the closing quote
skipStringStep(css, quote, s) ==
  IF s.i < Len(css) /\ css[s.i + 1] # quote
  THEN [i |-> IF css[s.i + 1] = "\\" THEN s.i + 2 ELSE s.i + 1, done |-> FALSE]
  ELSE [i |-> s.i, done |-> TRUE]

skipString(css, i, quote) ==
  Iterate(LAMBDA s : skipStringStep(css, quote, s), [i |-> i, done |-> FALSE],
          Len(css) + 1).i

\* a faulty variant of readChar, which C17 must reject: a brace that ends
\* pending text is not read again
readCharBraceConsumed(css, ch, i1, result) ==
  CASE ch = "\\" ->
         [i |-> i1 + 1, result |-> Append(result, ch) \o CharAt(css, i1 + 1), done |-> FALSE]
    [] ch = "/" /\ i1 < Len(css) /\ css[i1 + 1] = "*" ->
         [i |-> (LET found == IndexOf(css, << "*", "/" >>, i1)
                 IN  IF found < 0 THEN Len(css) ELSE found + 2),
          result |-> appendNormalized(result, " "), done |-> FALSE]
    [] ch \in {"'", "\""} ->
         (LET stop == skipString(css, i1, ch) + 1
          IN  [i |-> stop, result |-> result \o Slice(css, i1 - 1, stop), done |-> FALSE])
    [] ch = ";" ->
         [i |-> i1, result |-> Append(result, ch), done |-> TRUE]
    [] ch \in {"{", "}"} ->
         IF Trim(result) # << >>
         THEN [i |-> i1, result |-> result, done |-> TRUE]
         ELSE [i |-> i1, result |-> << ch >>, done |-> TRUE]
    [] OTHER ->
         [i |-> i1, result |-> appendNormalized(result, ch), done |-> FALSE]

\* one iteration of the while loop of read(), ch == css[i] read and i incremented
readChar(css, ch, i1, result) ==
  CASE ch = "\\" ->
         [i |-> i1 + 1, result |-> Append(result, ch) \o CharAt(css, i1 + 1), done |-> FALSE]
    [] ch = "/" /\ i1 < Len(css) /\ css[i1 + 1] = "*" ->
         [i |-> (LET found == IndexOf(css, << "*", "/" >>, i1)
                 IN  IF found < 0 THEN Len(css) ELSE found + 2),
          result |-> appendNormalized(result, " "), done |-> FALSE]
    [] ch \in {"'", "\""} ->
         (LET stop == skipString(css, i1, ch) + 1
          IN  [i |-> stop, result |-> result \o Slice(css, i1 - 1, stop), done |-> FALSE])
    [] ch = ";" ->
         [i |-> i1, result |-> Append(result, ch), done |-> TRUE]
    [] ch \in {"{", "}"} ->
         IF Trim(result) # << >>
         THEN [i |-> i1 - 1, result |-> result, done |-> TRUE]
         ELSE [i |-> i1, result |-> << ch >>, done |-> TRUE]
    [] OTHER ->
         [i |-> i1, result |-> appendNormalized(result, ch), done |-> FALSE]

readStep(css, s) ==
  IF ~(s.i < Len(css)) THEN [s EXCEPT !.done = TRUE]
  ELSE readChar(css, css[s.i + 1], s.i + 1, s.result)

\* a faulty variant of readValue, which C18 must reject: the result is not
\* trimmed
readValueRaw(s) == [value |-> s.result, i |-> s.i]

\* read(): [value, i]
readValue(s) == [value |-> Trim(s.result), i |-> s.i]

read(css, i) ==
  readValue(Iterate(LAMBDA s : readStep(css, s),
                    [i |-> i, result |-> << >>, done |-> FALSE], Len(css) + 1))

(***************************************************************************)
(* rule-gen.ts: the rule lookup table.  A table is a function from rule    *)
(* names to rules; a rule without suffix or sibling holds the empty text   *)
(* there (the code only tests these fields for truthiness).                *)
(***************************************************************************)

\* the Rule type
Rule(specificity, css) ==
  [specificity |-> specificity, css |-> css, suffix |-> << >>, sibling |-> << >>]

\* rules.get(name) !== undefined, for names that are own properties of the table
rulesHas(rules, name) == name \in DOMAIN rules

\* rules.set(name, rule)
rulesSet(rules, name, rule) ==
  [n \in DOMAIN rules \cup {name} |-> IF n = name THEN rule ELSE rules[n]]

(***************************************************************************)
(* css-processor.ts                                                        *)
(***************************************************************************)

\* the characters the name pattern of expandApply accepts: [\w-\/]
IsApplyNameChar(ch) == IsWord(ch) \/ ch = "-" \/ ch = "/"

\* the k-th smallest element of a finite set of integers
Nth(S, k) == CHOOSE x \in S : Cardinality({y \in S : y < x}) = k - 1

\* s.match(/[\w-\/]+/g) || []: the maximal runs of name characters, in order
matchNames(s) ==
  LET starts == {k \in 1..Len(s) :
                   IsApplyNameChar(s[k]) /\ (k = 1 \/ ~IsApplyNameChar(s[k - 1]))}
      stop(k) == CHOOSE j \in k..Len(s) :
                   /\ \A m \in k..j : IsApplyNameChar(s[m])
                   /\ (j = Len(s) \/ ~IsApplyNameChar(s[j + 1]))
  IN  [n \in 1..Cardinality(starts) |-> SubSeq(s, Nth(starts, n), stop(Nth(starts, n)))]

ApplyPrefix == <<"@","a","p","p","l","y">>

\* a faulty variant of applyBodies, which C1 must reject: each body is put
\* before the bodies gathered so far
RECURSIVE applyBodiesReversed(_, _)
applyBodiesReversed(names, rules) ==
  IF names = << >> THEN << >>
  ELSE applyBodiesReversed(Tail(names), rules)
       \o (IF rulesHas(rules, Head(names)) THEN rules[Head(names)].css ELSE << >>)

\* the for loop of expandApply: result += rules.get(name)?.css || ''
RECURSIVE applyBodies(_, _)
applyBodies(names, rules) ==
  IF names = << >> THEN << >>
  ELSE (IF rulesHas(rules, Head(names)) THEN rules[Head(names)].css ELSE << >>)
       \o applyBodies(Tail(names), rules)

expandApply(token, rules) ==
  IF ~StartsWith(token, ApplyPrefix) THEN token
  ELSE applyBodies(matchNames(Slice(token, Len(ApplyPrefix), Len(token))), rules)

ImportPrefix == <<"@","i","m","p","o","r","t"," ">>

\* a scan of s by the units of (?:[^q\\]|\\.): a character other than the
\* quote and the backslash, or a backslash with the character after it;
\* out collects what replaceAll(/\\./g, (ch) => ch.slice(-1)) keeps
unitStep(s, q, st) ==
  IF st.i > Len(s) THEN [st EXCEPT !.done = TRUE]
  ELSE IF s[st.i] = "\\"
       THEN IF st.i < Len(s) /\ s[st.i + 1] # "\n"
            THEN [i |-> st.i + 2, ok |-> st.ok, out |-> Append(st.out, s[st.i + 1]),
                  done |-> FALSE]
            ELSE [i |-> st.i + 1, ok |-> FALSE, out |-> Append(st.out, s[st.i]),
                  done |-> FALSE]
  ELSE [i |-> st.i + 1, ok |-> st.ok /\ s[st.i] # q, out |-> Append(st.out, s[st.i]),
        done |-> FALSE]

units(s, q) ==
  Iterate(LAMBDA st : unitStep(s, q, st),
          [i |-> 1, ok |-> TRUE, out |-> << >>, done |-> FALSE], Len(s) + 1)

\* inlinableImport.test(token)
inlinableImport(token) ==
  LET n == Len(token)
      p == Len(ImportPrefix)
  IN  /\ StartsWith(token, ImportPrefix)
      /\ n >= p + 5
      /\ token[p + 1] \in {"'", "\""}
      /\ token[n] = ";"
      /\ token[n - 1] = token[p + 1]
      /\ token[p + 2] = "."
      /\ units(SubSeq(token, p + 3, n - 2), token[p + 1]).ok

\* the capture group of inlinableImport: the quoted file name
escapedFilename(token) == SubSeq(token, Len(ImportPrefix) + 1, Len(token) - 1)

\* escapedFilename.slice(1, -1).replaceAll(/\\./g, (ch) => ch.slice(-1))
unescapedFilename(token) ==
  LET e == escapedFilename(token) IN units(Slice(e, 1, Len(e) - 1), "\n").out

CssSuffix == <<".","c","s","s">>

\* s.split(sep) for a one-character separator
split(s, sep) ==
  LET cuts == {0, Len(s) + 1} \cup {k \in 1..Len(s) : s[k] = sep}
  IN  [n \in 1..(Cardinality(cuts) - 1) |->
         SubSeq(s, Nth(cuts, n) + 1, Nth(cuts, n + 1) - 1)]

\* s.split('/')
splitPath(s) == split(s, "/")

\* path.normalize on the segments of a relative path
RECURSIVE normalizeSegments(_, _)
normalizeSegments(segs, acc) ==
  IF segs = << >> THEN acc
  ELSE LET s == Head(segs) IN
       IF s = << >> \/ s = << "." >> THEN normalizeSegments(Tail(segs), acc)
       ELSE IF s = << ".", "." >> /\ acc # << >> /\ acc[Len(acc)] # << ".", "." >>
            THEN normalizeSegments(Tail(segs), SubSeq(acc, 1, Len(acc) - 1))
       ELSE normalizeSegments(Tail(segs), Append(acc, s))

RECURSIVE joinSegments(_)
joinSegments(segs) ==
  IF segs = << >> THEN << >>
  ELSE IF Len(segs) = 1 THEN Head(segs)
  ELSE Head(segs) \o << "/" >> \o joinSegments(Tail(segs))

\* path.dirname of a relative file name
pathDirname(filename) ==
  LET slashes == {k \in 1..Len(filename) : filename[k] = "/"}
  IN  IF slashes = {} THEN << "." >>
      ELSE SubSeq(filename, 1, Nth(slashes, Cardinality(slashes)) - 1)

\* path.join(dir, name) for relative paths
pathJoin(dir, name) ==
  LET segs == normalizeSegments(splitPath(dir \o << "/" >> \o name), << >>)
  IN  IF segs = << >> THEN << "." >> ELSE joinSegments(segs)

\* a faulty variant of importedFilename, which C2 must reject: the path is
\* resolved against the working directory
importedFilenameFromCwd(filename, token) == pathJoin(<< "." >>, unescapedFilename(token))

\* path.join(path.dirname(opts.filename), unescapedFilename)
importedFilename(filename, token) ==
  pathJoin(pathDirname(filename), unescapedFilename(token))

ErrExpectedBrace == <<"F","a","i","l","e","d"," ","t","o"," ","r","e","a","d"," ","b","l","o","c","k",":"," ","e","x","p","e","c","t","e","d"," ","\"","{","\"",","," ","g","o","t"," ","\"">>
ErrInvalidClassHead == <<"I","n","v","a","l","i","d"," ","@","l","a","y","e","r"," ","u","t","i","l","i","t","i","e","s"," ","c","l","a","s","s",":"," ","\"">>
ErrInvalidClassTail == <<"\"","."," ","C","l","a","s","s"," ","n","a","m","e","s"," ","s","h","o","u","l","d"," ","s","t","a","r","t"," ","w","i","t","h"," ","a"," ","\"",".","\"">>
ErrNoFile == <<"E","N","O","E","N","T",":"," ","n","o"," ","s","u","c","h"," ","f","i","l","e"," ","o","r"," ","d","i","r","e","c","t","o","r","y">>

\* assertOpeningBrace's throw, r1 the token read and r2 the one after it
assertFailed(r1, r2) ==
  [i |-> r2.i, error |-> ErrExpectedBrace \o r1.value \o r2.value \o << "\"" >>]

\* a faulty variant of assertBrace, which C22 must reject: any token is taken
\* for the opening brace
assertBraceAny(css, r1) == [i |-> r1.i, error |-> << >>]

\* assertOpeningBrace, r1 the token read: [i, error]; error is the empty text
\* when nothing is thrown
assertBrace(css, r1) ==
  IF r1.value = << "{" >> THEN [i |-> r1.i, error |-> << >>]
  ELSE assertFailed(r1, read(css, r1.i))

assertOpeningBrace(css, i) == assertBrace(css, read(css, i))

\* one iteration of the while loop of readBlock, r the token read and token
\* its expansion
readBlockToken(s, r, token) ==
  IF r.value = << >> THEN [s EXCEPT !.i = r.i, !.done = TRUE]
  ELSE IF token = << "}" >> /\ s.braces - 1 < 0 THEN [s EXCEPT !.i = r.i, !.done = TRUE]
  ELSE [i |-> r.i, result |-> s.result \o token,
        braces |-> IF token = << "}" >> THEN s.braces - 1
                   ELSE IF token = << "{" >> THEN s.braces + 1 ELSE s.braces,
        error |-> << >>, done |-> FALSE]

\* a faulty variant of readBlockRead, which C6 must reject: the tokens of a
\* block are not expanded
readBlockRaw(rules, s, r) == readBlockToken(s, r, r.value)

readBlockRead(rules, s, r) == readBlockToken(s, r, expandApply(r.value, rules))

readBlockStep(css, rules, s) == readBlockRead(rules, s, read(css, s.i))

\* readBlock after its assertOpeningBrace a: [result, i, error]
readBlockFrom(css, rules, a) ==
  IF a.error # << >> THEN [result |-> << >>, i |-> a.i, error |-> a.error]
  ELSE Iterate(LAMBDA s : readBlockStep(css, rules, s),
               [i |-> a.i, result |-> << >>, braces |-> 0, error |-> << >>,
                done |-> FALSE], Len(css) + 1)

readBlock(css, i, rules) == readBlockFrom(css, rules, assertOpeningBrace(css, i))

\* a faulty variant of extractSet, which C5 must reject: the specificity
\* counter is not incremented
extractSetFlat(s, ruleName, b) ==
  IF b.error # << >> THEN [s EXCEPT !.i = b.i, !.error = b.error, !.done = TRUE]
  ELSE [s EXCEPT !.i = b.i,
                 !.rules = rulesSet(s.rules, Slice(ruleName, 1, Len(ruleName)),
                                    Rule(s.specificity, b.result))]

\* rules.set(ruleName.slice(1), {specificity, css: readBlock(r, rules)}), b the
\* outcome of readBlock
extractSet(s, ruleName, b) ==
  IF b.error # << >> THEN [s EXCEPT !.i = b.i, !.error = b.error, !.done = TRUE]
  ELSE [i |-> b.i,
        rules |-> rulesSet(s.rules, Slice(ruleName, 1, Len(ruleName)),
                           Rule(s.specificity + 1, b.result)),
        specificity |-> s.specificity + 1, error |-> << >>, done |-> FALSE]

\* one iteration of the while loop of extractUtilitiesLayer, r the token read
extractToken(css, s, r) ==
  IF r.value = << >> \/ r.value = << "}" >> THEN [s EXCEPT !.i = r.i, !.done = TRUE]
  ELSE IF ~StartsWith(r.value, << "." >>)
  THEN [s EXCEPT !.i = r.i, !.done = TRUE,
                 !.error = ErrInvalidClassHead \o r.value \o ErrInvalidClassTail]
  ELSE extractSet(s, r.value, readBlock(css, r.i, s.rules))

extractStep(css, s) == extractToken(css, s, read(css, s.i))

\* extractUtilitiesLayer after its assertOpeningBrace a: [rules, i, error]
extractFrom(css, rules, a) ==
  IF a.error # << >> THEN [rules |-> rules, i |-> a.i, error |-> a.error]
  ELSE Iterate(LAMBDA s : extractStep(css, s),
               [i |-> a.i, rules |-> rules, specificity |-> 0, error |-> << >>,
                done |-> FALSE], Len(css) + 1)

extractUtilitiesLayer(css, i, rules) ==
  extractFrom(css, rules, assertOpeningBrace(css, i))

LayerBase == <<"@","l","a","y","e","r"," ","b","a","s","e",";">>
LayerUtilities == <<"@","l","a","y","e","r"," ","u","t","i","l","i","t","i","e","s">>

(***************************************************************************)
(* config.ts: the breakpoints of the compiled configuration                *)
(***************************************************************************)

\* defaultConfig.breakpoint
defaultBreakpoint ==
  (<<"s","m">> :> <<"6","4","0","p","x">>) @@ (<<"m","d">> :> <<"7","6","8","p","x">>) @@ (<<"l","g">> :> <<"1","0","2","4","p","x">>) @@
  (<<"x","l">> :> <<"1","2","8","0","p","x">>) @@ (<<"2","x","l">> :> <<"1","5","3","6","p","x">>)

\* compileConfig on one breakpoint value
compileBreakpoint(v) ==
  IF StartsWith(v, <<"@","m","e","d","i","a">>) THEN v ELSE <<"@","m","e","d","i","a"," ","(","m","i","n","-","w","i","d","t","h",":"," ">> \o v \o <<")">>

\* compileConfig().breakpoint
breakpoints == [k \in DOMAIN defaultBreakpoint |-> compileBreakpoint(defaultBreakpoint[k])]

\* the property names every plain object inherits from Object.prototype: a
\* lookup obj[key] with one of these keys yields a truthy value although the
\* object was given no such property
ObjectPrototypeKeys ==
  { <<"c","o","n","s","t","r","u","c","t","o","r">>, <<"t","o","S","t","r","i","n","g">>, <<"v","a","l","u","e","O","f">>, <<"t","o","L","o","c","a","l","e","S","t","r","i","n","g">>, <<"h","a","s","O","w","n","P","r","o","p","e","r","t","y">>,
    <<"i","s","P","r","o","t","o","t","y","p","e","O","f">>, <<"p","r","o","p","e","r","t","y","I","s","E","n","u","m","e","r","a","b","l","e">>, <<"_","_","p","r","o","t","o","_","_">>, <<"_","_","d","e","f","i","n","e","G","e","t","t","e","r","_","_">>,
    <<"_","_","d","e","f","i","n","e","S","e","t","t","e","r","_","_">>, <<"_","_","l","o","o","k","u","p","G","e","t","t","e","r","_","_">>, <<"_","_","l","o","o","k","u","p","S","e","t","t","e","r","_","_">> }

\* the truthiness of obj[key] for a plain object obj whose own values are truthy
truthy(obj, key) == key \in DOMAIN obj \/ key \in ObjectPrototypeKeys

(***************************************************************************)
(* layer-builder.ts.  An output rule is [selector, breakpoint,             *)
(* specificity, css, sibling]; an absent sibling is the empty text.        *)
(***************************************************************************)

\* className.replaceAll(/[\:\/\.]/g, (ch) => `\\${ch}`)
escapeClassName(className) ==
  Flatten([k \in 1..Len(className) |->
             IF className[k] \in {":", "/", "."} THEN << "\\", className[k] >>
             ELSE << className[k] >>])

\* Array.prototype.reverse
reverse(xs) == [k \in 1..Len(xs) |-> xs[Len(xs) + 1 - k]]

\* the body of the for loop over pseudos in makeOutputRule
pseudoStep(bps, pseudos, s) ==
  IF s.k > Len(pseudos) THEN [s EXCEPT !.done = TRUE]
  ELSE IF truthy(bps, pseudos[s.k])
       THEN [s EXCEPT !.k = s.k + 1, !.breakpoint = pseudos[s.k]]
  ELSE IF pseudos[s.k] = <<"d","a","r","k">>
       THEN [s EXCEPT !.k = s.k + 1, !.selector = <<".","d","a","r","k"," ">> \o s.selector]
  ELSE [s EXCEPT !.k = s.k + 1, !.selector = s.selector \o << ":" >> \o pseudos[s.k]]

\* makeOutputRule once rules.get(name) returned rule
outputRuleOf(className, rule, pseudos, bps) ==
  LET s == Iterate(LAMBDA st : pseudoStep(bps, pseudos, st),
                   [k |-> 1, selector |-> << "." >> \o escapeClassName(className),
                    breakpoint |-> << >>, done |-> FALSE], Len(pseudos) + 1)
  IN  [selector |-> s.selector \o rule.suffix, breakpoint |-> s.breakpoint,
       specificity |-> rule.specificity, css |-> rule.css, sibling |-> rule.sibling]

\* makeOutputRule: the output rule in a sequence of one, or the empty sequence
\* when the name is not in the table.  For names that rules.get does not
\* inherit from Object.prototype.
makeOutputRule(className, table, bps) ==
  LET parts == reverse(split(className, ":"))
  IN  IF ~rulesHas(table, parts[1]) THEN << >>
      ELSE << outputRuleOf(className, table[parts[1]], Tail(parts), bps) >>

Digits == << "0", "1", "2", "3", "4", "5", "6", "7", "8", "9" >>

\* `${n}` for a natural number n
RECURSIVE numberText(_)
numberText(n) ==
  IF n < 10 THEN << Digits[n + 1] >>
  ELSE Append(numberText(n \div 10), Digits[(n % 10) + 1])

\* a faulty variant of mergeKey, which C10 must reject: the breakpoint is not
\* part of the key
mergeKeyNoBreakpoint(rule) == numberText(rule.specificity) \o << ":" >> \o rule.css

\* the key of mergeDuplicateRules
mergeKey(rule) ==
  rule.breakpoint \o << ":" >> \o numberText(rule.specificity) \o << ":" >> \o rule.css

\* { ...dup, selector, sibling } of mergeDuplicateRules
mergeInto(dup, rule) ==
  [dup EXCEPT !.selector = dup.selector \o << "," >> \o rule.selector,
              !.sibling = IF dup.sibling = rule.sibling THEN dup.sibling
                          ELSE rule.sibling \o dup.sibling]

\* the body of the for loop of mergeDuplicateRules; keys and merged hold the
\* keys and the values of the object merged in insertion order
mergeStep(rs, s) ==
  IF s.k > Len(rs) THEN [s EXCEPT !.done = TRUE]
  ELSE LET key == mergeKey(rs[s.k])
           at == {j \in 1..Len(s.keys) : s.keys[j] = key}
       IN  IF at = {}
           THEN [k |-> s.k + 1, keys |-> Append(s.keys, key),
                 merged |-> Append(s.merged, rs[s.k]), done |-> FALSE]
           ELSE [k |-> s.k + 1, keys |-> s.keys,
                 merged |-> [s.merged EXCEPT ![CHOOSE j \in at : TRUE] =
                                               mergeInto(@, rs[s.k])],
                 done |-> FALSE]

mergeDuplicateRules(rs) ==
  Iterate(LAMBDA s : mergeStep(rs, s),
          [k |-> 1, keys |-> << >>, merged |-> << >>, done |-> FALSE], Len(rs) + 1).merged

\* a faulty variant of sortBySpecificity, which C11 must reject: the merged
\* rules are left in the order of their keys
sortSkipped(rs) == rs

\* Array.prototype.sort((a, b) => a.specificity - b.specificity): a stable sort
sortBySpecificity(rs) ==
  LET before(j, k) == \/ rs[j].specificity < rs[k].specificity
                      \/ rs[j].specificity = rs[k].specificity /\ j < k
      rank(k) == Cardinality({j \in 1..Len(rs) : before(j, k)}) + 1
  IN  [r \in 1..Len(rs) |-> rs[CHOOSE k \in 1..Len(rs) : rank(k) = r]]

ErrNotArray == <<"T","y","p","e","E","r","r","o","r",":"," ","a","r","r",".","p","u","s","h"," ","i","s"," ","n","o","t"," ","a"," ","f","u","n","c","t","i","o","n">>

\* a faulty variant of ruleEntries, which C14 must reject: the set siblings is
\* not consulted
ruleEntriesAll(rule, siblings) ==
  << rule.selector \o << "{" >> \o rule.css \o << "}" >> >>
  \o (IF rule.sibling # << >> THEN << rule.sibling >> ELSE << >>)

\* the entries one rule pushes to its breakpoint's array
ruleEntries(rule, siblings) ==
  << rule.selector \o << "{" >> \o rule.css \o << "}" >> >>
  \o (IF rule.sibling # << >> /\ rule.sibling \notin siblings THEN << rule.sibling >> ELSE << >>)

\* the body of the for loop of stringifyUtilities; names and arrs hold the keys
\* and the values of the object breakpointRules in insertion order
bucketStep(rs, s) ==
  IF s.k > Len(rs) THEN [s EXCEPT !.done = TRUE]
  ELSE LET rule == rs[s.k]
           at == {j \in 1..Len(s.names) : s.names[j] = rule.breakpoint}
           entries == ruleEntries(rule, s.siblings)
       IN  IF at = {} /\ rule.breakpoint \in ObjectPrototypeKeys
           THEN [s EXCEPT !.error = ErrNotArray, !.done = TRUE]
           ELSE [k |-> s.k + 1,
                 names |-> IF at = {} THEN Append(s.names, rule.breakpoint) ELSE s.names,
                 arrs |-> IF at = {} THEN Append(s.arrs, entries)
                          ELSE [s.arrs EXCEPT ![CHOOSE j \in at : TRUE] = @ \o entries],
                 siblings |-> IF rule.sibling # << >> THEN s.siblings \cup {rule.sibling}
                              ELSE s.siblings,
                 error |-> << >>, done |-> FALSE]

\* the final CSS of one breakpoint
bucketText(bps, name, arr) ==
  IF name # << >> THEN bps[name] \o <<" ","{">> \o Join(arr, << "\n" >>) \o <<"}">>
  ELSE Join(arr, << "\n" >>)

\* stringifyUtilities: [css, error]; error is the empty text when nothing is thrown
stringifyBuckets(bps, s) ==
  IF s.error # << >> THEN [css |-> << >>, error |-> s.error]
  ELSE [css |-> <<"@","l","a","y","e","r"," ","u","t","i","l","i","t","i","e","s","{">>
                \o Join([j \in 1..Len(s.names) |-> bucketText(bps, s.names[j], s.arrs[j])],
                        << "\n" >>)
                \o <<"}">>,
        error |-> << >>]

stringifySorted(bps, rs) ==
  stringifyBuckets(bps,
    Iterate(LAMBDA s : bucketStep(rs, s),
            [k |-> 1, names |-> << >>, arrs |-> << >>, siblings |-> {}, error |-> << >>,
             done |-> FALSE], Len(rs) + 1))

stringifyUtilities(bps, rs) == stringifySorted(bps, sortBySpecificity(mergeDuplicateRules(rs)))

\* classNameRegex: [a-z\-] then [a-z\:\-\/0-9\.]+
IsClassFirst(ch) == IsLower(ch) \/ ch = "-"

IsClassRest(ch) == IsLower(ch) \/ IsDigit(ch) \/ ch \in {":", "-", "/", "."}

\* source.matchAll(classNameRegex): in every maximal run of [a-z\:\-\/0-9\.]
\* the match begins at the first [a-z\-] that is not the run's last character
\* and extends to the run's end
sourceClasses(source) ==
  LET n == Len(source)
      ends == {b \in 1..n : IsClassRest(source[b]) /\ (b = n \/ ~IsClassRest(source[b + 1]))}
      begin(b) == CHOOSE a \in 1..b :
                    /\ \A m \in a..b : IsClassRest(source[m])
                    /\ (a = 1 \/ ~IsClassRest(source[a - 1]))
      firsts(b) == {k \in begin(b)..(b - 1) : IsClassFirst(source[k])}
      hits == {b \in ends : firsts(b) # {}}
  IN  [m \in 1..Cardinality(hits) |->
         SubSeq(source, Nth(firsts(Nth(hits, m)), 1), Nth(hits, m))]

\* a faulty variant of classStep, which C13 must reject: skipClasses is not
\* consulted
classStepAlways(classNames, table, bps, s) ==
  IF s.k > Len(classNames) THEN [s EXCEPT !.done = TRUE]
  ELSE [k |-> s.k + 1,
        skipClasses |-> s.skipClasses \cup {classNames[s.k]},
        outputRules |-> s.outputRules \o makeOutputRule(classNames[s.k], table, bps),
        done |-> FALSE]

\* the body of the for loop of update() of the utility layer builder
classStep(classNames, table, bps, s) ==
  IF s.k > Len(classNames) THEN [s EXCEPT !.done = TRUE]
  ELSE IF classNames[s.k] \in s.skipClasses THEN [s EXCEPT !.k = s.k + 1]
  ELSE [k |-> s.k + 1,
        skipClasses |-> s.skipClasses \cup {classNames[s.k]},
        outputRules |-> s.outputRules \o makeOutputRule(classNames[s.k], table, bps),
        done |-> FALSE]

\* update(sources) for one source: [outputRules, skipClasses]
updateClasses(classNames, table, bps, rs, skip) ==
  Iterate(LAMBDA s : classStep(classNames, table, bps, s),
          [k |-> 1, skipClasses |-> skip, outputRules |-> rs, done |-> FALSE],
          Len(classNames) + 1)

(***************************************************************************)
(* config.ts and rule-gen.ts: the compiled configuration and the rule      *)
(* table made from it.  A section of the configuration is a function from  *)
(* its keys to their values.  The families of rules modelled are the       *)
(* colors, the sizes, inset, border width, border radius, the spacing and  *)
(* the gradient stops, with an excerpt of the literal rules (overflow).    *)
(***************************************************************************)

\* an excerpt of defaultConfig
defaultConfig ==
  [color |-> (<<"c","u","r","r","e","n","t">> :> <<"c","u","r","r","e","n","t","C","o","l","o","r">>) @@ (<<"g","r","e","e","n","-","6","0","0">> :> <<"#","1","6","a","3","4","a">>),
   spacing |-> (<<"0">> :> <<"0","p","x">>) @@ (<<"0",".","5">> :> <<"0",".","1","2","5","r","e","m">>) @@ (<<"4">> :> <<"1","r","e","m">>),
   size |-> (<<"1","/","2">> :> <<"5","0","%">>),
   borderWidth |-> (<<"D","E","F","A","U","L","T">> :> <<"1","p","x">>) @@ (<<"2">> :> <<"2","p","x">>),
   borderRadius |-> (<<"D","E","F","A","U","L","T">> :> <<"0",".","2","5","r","e","m">>) @@ (<<"m","d">> :> <<"0",".","3","7","5","r","e","m">>)]

\* compileConfig: the sections of config are merged into the defaults, the hex
\* colors are converted with hexToRGB, and size includes the spacing
compileConfig(user) ==
  LET HexDigits == <<"0","1","2","3","4","5","6","7","8","9","a","b","c","d","e","f">>
      digit(ch) == (CHOOSE k \in 1..16 : HexDigits[k] = ch) - 1
      parseHex(color, i) ==
        IF Len(color) = 3 THEN 16 * digit(color[i + 1]) + digit(color[i + 1])
        ELSE 16 * digit(color[2 * i + 1]) + digit(color[2 * i + 2])
      hexToRGB(color) ==
        IF color[1] # "#" THEN color
        ELSE LET hex == Tail(color)
             IN  numberText(parseHex(hex, 0)) \o << " " >> \o numberText(parseHex(hex, 1))
                 \o << " " >> \o numberText(parseHex(hex, 2))
      merged == [k \in DOMAIN defaultConfig |-> user[k] @@ defaultConfig[k]]
  IN  [merged EXCEPT !.color = [k \in DOMAIN merged.color |-> hexToRGB(merged.color[k])],
                     !.size = merged.size @@ merged.spacing]

\* rules.set(name, rule) for every entry << name, rule >> of entries, which
\* holds one rule for each of its names
setAll(rules, entries) ==
  LET names == { e[1] : e \in entries }
  IN  [n \in DOMAIN rules \cup names |->
         IF n \in names THEN (CHOOSE e \in entries : e[1] = n)[2] ELSE rules[n]]

\* genColors; prop is the list of the texts between which propFn puts the
\* color: << 'color: ', ';' >> for the property 'color'
genColors(rules, colors, prefix, prop, specificity) ==
  LET tw == <<"-","-","t","w","-">> \o prefix \o <<"-","o","p","a","c","i","t","y">>
      opacity(i) ==
        IF i = 100 THEN <<"1">>
        ELSE IF i = 0 THEN <<"0">>
        ELSE IF i < 10 THEN <<"0",".","0">> \o numberText(i)
        ELSE IF i % 10 = 0 THEN <<"0",".">> \o numberText(i \div 10)
        ELSE <<"0",".">> \o numberText(i)
      color(v) ==
        IF IndexOf(v, << " " >>, 0) > 0
        THEN <<"r","g","b","(">> \o v \o <<" ","/"," ","v","a","r","(">> \o tw \o <<")",")">>
        ELSE v
      steps == { 5 * n : n \in 0..20 }
  IN  setAll(rules,
        { << prefix \o <<"-">> \o k,
             Rule(specificity, tw \o <<":"," ","1",";"," ">> \o Join(prop, color(colors[k]))) >> :
          k \in DOMAIN colors }
        \cup
        { << prefix \o <<"-">> \o ki[1] \o <<"/">> \o numberText(ki[2]),
             Rule(specificity + 1,
                  Join(prop, <<"r","g","b","(">> \o colors[ki[1]] \o <<" ","/"," ">> \o opacity(ki[2]) \o <<")">>)) >> :
          ki \in (DOMAIN colors) \X steps }
        \cup
        { << prefix \o <<"-","o","p","a","c","i","t","y","-">> \o numberText(ki[2]),
             Rule(specificity + 2, tw \o <<":"," ">> \o opacity(ki[2]) \o <<";">>) >> :
          ki \in (DOMAIN colors) \X steps })

\* configToRules: the rules are set in the order of the source; an item is a
\* call of addRule inside a loop over a section: the head of the name, the
\* texts between which the value is put, and the specificity
configToRules(cfg) ==
  LET item(n, p, s) == [n |-> n, p |-> p, s |-> s]
      one(prop) == << prop \o <<":"," ">>, <<";">> >>
      two(a, b, sep) == << a \o <<":"," ">>, <<";">> \o sep \o b \o <<":"," ">>, <<";">> >>
      \* the rules of the items for every key of a section; tail(k) is what
      \* follows the head in the name and sign is put before the value
      each(rs, section, items, tail(_), sign) ==
        setAll(rs, { << ik[1].n \o tail(ik[2]),
                        Rule(ik[1].s, Join(ik[1].p, sign \o section[ik[2]])) >> :
                     ik \in items \X (DOMAIN section) })
      dash(k) == <<"-">> \o k
      orDefault(k) == IF k = <<"D","E","F","A","U","L","T">> THEN << >> ELSE <<"-">> \o k
      toColorLiteral(s) == IF IndexOf(s, << " " >>, 0) > 0 THEN <<"r","g","b","(">> \o s \o <<")">> ELSE s
      literals ==
        setAll(<< >>,
          { << <<"o","v","e","r","f","l","o","w","-","a","u","t","o">>, Rule(0, <<"o","v","e","r","f","l","o","w",":"," ","a","u","t","o",";">>) >>,
            << <<"o","v","e","r","f","l","o","w","-","h","i","d","d","e","n">>, Rule(0, <<"o","v","e","r","f","l","o","w",":"," ","h","i","d","d","e","n",";">>) >>,
            << <<"o","v","e","r","f","l","o","w","-","x","-","a","u","t","o">>, Rule(1, <<"o","v","e","r","f","l","o","w","-","x",":"," ","a","u","t","o",";">>) >>,
            << <<"o","v","e","r","f","l","o","w","-","x","-","h","i","d","d","e","n">>, Rule(1, <<"o","v","e","r","f","l","o","w","-","x",":"," ","h","i","d","d","e","n",";">>) >>,
            << <<"o","v","e","r","f","l","o","w","-","y","-","a","u","t","o">>, Rule(1, <<"o","v","e","r","f","l","o","w","-","y",":"," ","a","u","t","o",";">>) >>,
            << <<"o","v","e","r","f","l","o","w","-","y","-","h","i","d","d","e","n">>, Rule(1, <<"o","v","e","r","f","l","o","w","-","y",":"," ","h","i","d","d","e","n",";">>) >> })
      c1 == genColors(literals, cfg.color, <<"o","u","t","l","i","n","e">>, one(<<"o","u","t","l","i","n","e","-","c","o","l","o","r">>), 0)
      c2 == genColors(c1, cfg.color, <<"t","e","x","t">>, one(<<"c","o","l","o","r">>), 0)
      c3 == genColors(c2, cfg.color, <<"d","e","c","o","r","a","t","i","o","n">>, one(<<"t","e","x","t","-","d","e","c","o","r","a","t","i","o","n","-","c","o","l","o","r">>), 0)
      c4 == genColors(c3, cfg.color, <<"b","g">>, one(<<"b","a","c","k","g","r","o","u","n","d","-","c","o","l","o","r">>), 0)
      c5 == genColors(c4, cfg.color, <<"b","o","r","d","e","r">>, one(<<"b","o","r","d","e","r","-","c","o","l","o","r">>), 0)
      c6 == genColors(c5, cfg.color, <<"a","c","c","e","n","t">>, one(<<"a","c","c","e","n","t","-","c","o","l","o","r">>), 2)
      c7 == genColors(c6, cfg.color, <<"b","o","r","d","e","r","-","l">>, one(<<"b","o","r","d","e","r","-","l","e","f","t","-","c","o","l","o","r">>), 2)
      c8 == genColors(c7, cfg.color, <<"b","o","r","d","e","r","-","r">>, one(<<"b","o","r","d","e","r","-","r","i","g","h","t","-","c","o","l","o","r">>), 2)
      c9 == genColors(c8, cfg.color, <<"b","o","r","d","e","r","-","t">>, one(<<"b","o","r","d","e","r","-","t","o","p","-","c","o","l","o","r">>), 2)
      c10 == genColors(c9, cfg.color, <<"b","o","r","d","e","r","-","b">>, one(<<"b","o","r","d","e","r","-","b","o","t","t","o","m","-","c","o","l","o","r">>), 2)
      c11 == genColors(c10, cfg.color, <<"b","o","r","d","e","r","-","x">>,
                       two(<<"b","o","r","d","e","r","-","l","e","f","t","-","c","o","l","o","r">>, <<"b","o","r","d","e","r","-","r","i","g","h","t","-","c","o","l","o","r">>, <<" ">>), 1)
      c12 == genColors(c11, cfg.color, <<"b","o","r","d","e","r","-","y">>,
                       two(<<"b","o","r","d","e","r","-","t","o","p","-","c","o","l","o","r">>, <<"b","o","r","d","e","r","-","b","o","t","t","o","m","-","c","o","l","o","r">>, <<" ">>), 1)
      c13 == genColors(c12, cfg.color, <<"s","h","a","d","o","w">>,
                       << <<"-","-","t","w","-","s","h","a","d","o","w","-","c","o","l","o","r",":"," ">>, <<";"," ","-","-","t","w","-","s","h","a","d","o","w",":"," ","v","a","r","(","-","-","t","w","-","s","h","a","d","o","w","-","c","o","l","o","r","e","d",")",";">> >>, 1)
      sizes ==
        each(c13, cfg.size,
             { item(<<"w">>, one(<<"w","i","d","t","h">>), 1), item(<<"m","i","n","-","w">>, one(<<"m","i","n","-","w","i","d","t","h">>), 1),
               item(<<"m","a","x","-","w">>, one(<<"m","a","x","-","w","i","d","t","h">>), 1), item(<<"h">>, one(<<"h","e","i","g","h","t">>), 1),
               item(<<"m","i","n","-","h">>, one(<<"m","i","n","-","h","e","i","g","h","t">>), 1), item(<<"m","a","x","-","h">>, one(<<"m","a","x","-","h","e","i","g","h","t">>), 1),
               item(<<"s","i","z","e">>, two(<<"w","i","d","t","h">>, <<"h","e","i","g","h","t">>, <<" ">>), 0) }, dash, << >>)
      insetItems(neg) ==
        { item(neg \o <<"i","n","s","e","t">>, one(<<"i","n","s","e","t">>), 0),
          item(neg \o <<"i","n","s","e","t","-","x">>, two(<<"l","e","f","t">>, <<"r","i","g","h","t">>, <<" ">>), 1),
          item(neg \o <<"i","n","s","e","t","-","y">>, two(<<"t","o","p">>, <<"b","o","t","t","o","m">>, <<" ">>), 1),
          item(neg \o <<"t","o","p">>, one(<<"t","o","p">>), 2), item(neg \o <<"l","e","f","t">>, one(<<"l","e","f","t">>), 2),
          item(neg \o <<"r","i","g","h","t">>, one(<<"r","i","g","h","t">>), 2), item(neg \o <<"b","o","t","t","o","m">>, one(<<"b","o","t","t","o","m">>), 2) }
      inset == each(each(sizes, cfg.size, insetItems(<< >>), dash, << >>),
                    cfg.size, insetItems(<<"-">>), dash, <<"-">>)
      widths ==
        each(inset, cfg.borderWidth,
             { item(<<"b","o","r","d","e","r">>, one(<<"b","o","r","d","e","r","-","w","i","d","t","h">>), 0),
               item(<<"b","o","r","d","e","r","-","x">>, two(<<"b","o","r","d","e","r","-","l","e","f","t","-","w","i","d","t","h">>, <<"b","o","r","d","e","r","-","r","i","g","h","t","-","w","i","d","t","h">>, << >>), 2),
               item(<<"b","o","r","d","e","r","-","y">>, two(<<"b","o","r","d","e","r","-","t","o","p","-","w","i","d","t","h">>, <<"b","o","r","d","e","r","-","b","o","t","t","o","m","-","w","i","d","t","h">>, << >>), 2),
               item(<<"b","o","r","d","e","r","-","t">>, one(<<"b","o","r","d","e","r","-","t","o","p","-","w","i","d","t","h">>), 4),
               item(<<"b","o","r","d","e","r","-","r">>, one(<<"b","o","r","d","e","r","-","r","i","g","h","t","-","w","i","d","t","h">>), 4),
               item(<<"b","o","r","d","e","r","-","b">>, one(<<"b","o","r","d","e","r","-","b","o","t","t","o","m","-","w","i","d","t","h">>), 4),
               item(<<"b","o","r","d","e","r","-","l">>, one(<<"b","o","r","d","e","r","-","l","e","f","t","-","w","i","d","t","h">>), 4) }, orDefault, << >>)
      radii ==
        each(widths, cfg.borderRadius,
             { item(<<"r","o","u","n","d","e","d">>, one(<<"b","o","r","d","e","r","-","r","a","d","i","u","s">>), 0),
               item(<<"r","o","u","n","d","e","d","-","t">>, two(<<"b","o","r","d","e","r","-","t","o","p","-","l","e","f","t","-","r","a","d","i","u","s">>, <<"b","o","r","d","e","r","-","t","o","p","-","r","i","g","h","t","-","r","a","d","i","u","s">>, << >>), 1),
               item(<<"r","o","u","n","d","e","d","-","r">>, two(<<"b","o","r","d","e","r","-","t","o","p","-","r","i","g","h","t","-","r","a","d","i","u","s">>, <<"b","o","r","d","e","r","-","b","o","t","t","o","m","-","r","i","g","h","t","-","r","a","d","i","u","s">>, << >>), 1),
               item(<<"r","o","u","n","d","e","d","-","b">>, two(<<"b","o","r","d","e","r","-","b","o","t","t","o","m","-","l","e","f","t","-","r","a","d","i","u","s">>, <<"b","o","r","d","e","r","-","b","o","t","t","o","m","-","r","i","g","h","t","-","r","a","d","i","u","s">>, << >>), 1),
               item(<<"r","o","u","n","d","e","d","-","l">>, two(<<"b","o","r","d","e","r","-","t","o","p","-","l","e","f","t","-","r","a","d","i","u","s">>, <<"b","o","r","d","e","r","-","b","o","t","t","o","m","-","l","e","f","t","-","r","a","d","i","u","s">>, << >>), 1),
               item(<<"r","o","u","n","d","e","d","-","t","l">>, one(<<"b","o","r","d","e","r","-","t","o","p","-","l","e","f","t","-","r","a","d","i","u","s">>), 2),
               item(<<"r","o","u","n","d","e","d","-","t","r">>, one(<<"b","o","r","d","e","r","-","t","o","p","-","r","i","g","h","t","-","r","a","d","i","u","s">>), 2),
               item(<<"r","o","u","n","d","e","d","-","b","r">>, one(<<"b","o","r","d","e","r","-","b","o","t","t","o","m","-","r","i","g","h","t","-","r","a","d","i","u","s">>), 2),
               item(<<"r","o","u","n","d","e","d","-","b","l">>, one(<<"b","o","r","d","e","r","-","b","o","t","t","o","m","-","l","e","f","t","-","r","a","d","i","u","s">>), 2) }, orDefault, << >>)
      spaceItems(prefix, prop) ==
        { item(prefix, one(prop), 0),
          item(prefix \o <<"x">>, two(prop \o <<"-","l","e","f","t">>, prop \o <<"-","r","i","g","h","t">>, << >>), 1),
          item(prefix \o <<"y">>, two(prop \o <<"-","t","o","p">>, prop \o <<"-","b","o","t","t","o","m">>, << >>), 1),
          item(prefix \o <<"t">>, one(prop \o <<"-","t","o","p">>), 2),
          item(prefix \o <<"r">>, one(prop \o <<"-","r","i","g","h","t">>), 2),
          item(prefix \o <<"b">>, one(prop \o <<"-","b","o","t","t","o","m">>), 2),
          item(prefix \o <<"l">>, one(prop \o <<"-","l","e","f","t">>), 2) }
      spaces ==
        each(each(radii, cfg.spacing,
                  spaceItems(<<"p">>, <<"p","a","d","d","i","n","g">>) \cup spaceItems(<<"m">>, <<"m","a","r","g","i","n">>)
                  \cup spaceItems(<<"g","a","p">>, <<"g","a","p">>), dash, << >>),
             cfg.spacing, spaceItems(<<"-","m">>, <<"m","a","r","g","i","n">>), dash, <<"-">>)
      stops(v) ==
        { << <<"f","r","o","m">>, 0,
             <<"-","-","t","w","-","g","r","a","d","i","e","n","t","-","f","r","o","m",":"," ">> \o v \o <<" ","v","a","r","(","-","-","t","w","-","g","r","a","d","i","e","n","t","-","f","r","o","m","-","p","o","s","i","t","i","o","n",")",";">>
             \o <<"-","-","t","w","-","g","r","a","d","i","e","n","t","-","t","o",":"," ">> \o v \o <<" ","v","a","r","(","-","-","t","w","-","g","r","a","d","i","e","n","t","-","t","o","-","p","o","s","i","t","i","o","n",")",";">>
             \o <<"-","-","t","w","-","g","r","a","d","i","e","n","t","-","s","t","o","p","s",":"," ","v","a","r","(","-","-","t","w","-","g","r","a","d","i","e","n","t","-","f","r","o","m",")",","," ","v","a","r","(","-","-","t","w","-","g","r","a","d","i","e","n","t","-","t","o",")",";">> >>,
          << <<"v","i","a">>, 1,
             <<"-","-","t","w","-","g","r","a","d","i","e","n","t","-","t","o",":"," ">> \o v \o <<" ","v","a","r","(","-","-","t","w","-","g","r","a","d","i","e","n","t","-","t","o","-","p","o","s","i","t","i","o","n",")",";">>
             \o <<"-","-","t","w","-","g","r","a","d","i","e","n","t","-","s","t","o","p","s",":"," ","v","a","r","(","-","-","t","w","-","g","r","a","d","i","e","n","t","-","f","r","o","m",")",",">>
             \o v \o <<" ","v","a","r","(","-","-","t","w","-","g","r","a","d","i","e","n","t","-","v","i","a","-","p","o","s","i","t","i","o","n",")",","," ","v","a","r","(","-","-","t","w","-","g","r","a","d","i","e","n","t","-","t","o",")",";">> >>,
          << <<"t","o">>, 2, <<"-","-","t","w","-","g","r","a","d","i","e","n","t","-","t","o",":"," ">> \o v \o <<" ","v","a","r","(","-","-","t","w","-","g","r","a","d","i","e","n","t","-","t","o","-","p","o","s","i","t","i","o","n",")",";">> >> }
  IN  setAll(spaces,
             UNION { { << s[1] \o <<"-">> \o k, Rule(s[2], s[3]) >> :
                       s \in stops(toColorLiteral(cfg.color[k])) } : k \in DOMAIN cfg.color })

(***************************************************************************)
(* The state: the file system, the shared rule table, the CSS builder      *)
(* (makeCSSBuilder: filenames, content, and the frames of the running      *)
(* loadCSS calls), the utility layer builder (outputRules, skipClasses)    *)
(* and the source texts its update() was called with (scanned), a reader   *)
(* of parseCSS and the tokens it has returned, and writeCSS: the build     *)
(* context in use (ctx), the output file, the exported function the        *)
(* program has called (api) and the number of changes of the CSS files.    *)
(***************************************************************************)
VARIABLES files, rules, stack, filenames, content, pc, error, outputRules,
          skipClasses, scanned, reader, tokens, ctx, outfile, api, edits,
          config

vars == << files, rules, stack, filenames, content, pc, error, outputRules,
           skipClasses, scanned, reader, tokens, ctx, outfile, api, edits,
           config >>

\* the bound on the number of top-level pieces of the root CSS file
MaxChunks == 2

\* the bound on the number of distinct source texts the builder is updated with
MaxUpdates == 2

\* opts.cssFile as scripts/start-dev.ts passes it
cssFile == <<"c","s","s","/","i","n","d","e","x",".","c","s","s">>

\* opts.baseLayer as css-processor.test.ts passes it
baseLayer == <<".","b","a","s","e","{","c","o","n","t","e","n","t",":"," ","'","n","o"," ","t","r","e","b","l","e","'","}">>

\* an excerpt of configToRules(compileConfig())
InitialRules ==
  LET add(name, css, specificity) == << name, Rule(specificity, css) >>
      table == {
        add(<<"f","l","e","x">>, <<"d","i","s","p","l","a","y",":"," ","f","l","e","x",";">>, 0),
        add(<<"h","i","d","d","e","n">>, <<"d","i","s","p","l","a","y",":"," ","n","o","n","e",";">>, 1),
        add(<<"p","-","0">>, <<"p","a","d","d","i","n","g",":"," ","0","p","x",";">>, 0),
        add(<<"p","-","0",".","5">>, <<"p","a","d","d","i","n","g",":"," ","0",".","1","2","5","r","e","m",";">>, 0),
        add(<<"p","-","4">>, <<"p","a","d","d","i","n","g",":"," ","1","r","e","m",";">>, 0),
        add(<<"p","t","-","4">>, <<"p","a","d","d","i","n","g","-","t","o","p",":"," ","1","r","e","m",";">>, 2),
        add(<<"b","g","-","g","r","e","e","n","-","6","0","0","/","2","0">>, <<"b","a","c","k","g","r","o","u","n","d","-","c","o","l","o","r",":"," ","r","g","b","(","2","2"," ","1","6","3"," ","7","4"," ","/"," ","0",".","2",")",";">>, 1),
        << <<"s","p","a","c","e","-","x","-","2">>,
           [specificity |-> 0,
            css |-> <<"-","-","t","w","-","s","p","a","c","e","-","x","-","r","e","v","e","r","s","e",":"," ","0",";","m","a","r","g","i","n","-","r","i","g","h","t",":"," ","c","a","l","c","(","0",".","5","r","e","m"," ","*"," ","c","a","l","c","(","1"," ","-"," ","v","a","r","(","-","-","t","w","-","s","p","a","c","e","-","x","-","r","e","v","e","r","s","e",")",")",")",";","m","a","r","g","i","n","-","l","e","f","t",":"," ","c","a","l","c","(","0",".","5","r","e","m"," ","*"," ","v","a","r","(","-","-","t","w","-","s","p","a","c","e","-","x","-","r","e","v","e","r","s","e",")",")",";">>,
            suffix |-> <<" ",">"," ",":","n","o","t","(","[","h","i","d","d","e","n","]",")"," ","~"," ",":","n","o","t","(","[","h","i","d","d","e","n","]",")">>,
            sibling |-> << >>] >>,
        << <<"a","n","i","m","a","t","e","-","s","p","i","n">>,
           [specificity |-> 1,
            css |-> <<"a","n","i","m","a","t","i","o","n",":"," ","s","p","i","n"," ","1","s"," ","l","i","n","e","a","r"," ","i","n","f","i","n","i","t","e",";">>,
            suffix |-> << >>,
            sibling |-> <<"@","k","e","y","f","r","a","m","e","s"," ","s","p","i","n"," ","{"," ","f","r","o","m"," ","{"," ","t","r","a","n","s","f","o","r","m",":"," ","r","o","t","a","t","e","(","0","d","e","g",")",";"," ","}"," ","t","o"," ","{"," ","t","r","a","n","s","f","o","r","m",":"," ","r","o","t","a","t","e","(","3","6","0","d","e","g",")",";"," ","}"," ","}">>] >>
      }
  IN  [n \in {e[1] : e \in table} |-> (CHOOSE e \in table : e[1] = n)[2]]

\* the files the root file can import
FileA == <<"c","s","s","/","a",".","c","s","s">>
FileB == <<"c","s","s","/","s","u","b","/","b",".","c","s","s">>
FileC == <<"c","s","s","/","s","u","b","/","c",".","c","s","s">>

\* the block of an @layer utilities statement, as css-processor.test.ts writes
\* one, with a nested block, an @apply list and an override of a generated rule
LayerBlock == <<"{","\n"," "," ",".","n","e","o","n"," ","{"," ","c","o","l","o","r",":"," ","p","i","n","k",";"," ","}","\n"," "," ",".","b","r","i","g","h","t"," ","{"," ","@","a","p","p","l","y"," ","n","e","o","n"," ","f","l","e","x"," ","b","r","i","g","h","t"," ","l","a","t","e","r",";"," ","b","a","c","k","g","r","o","u","n","d",":"," ","y","e","l","l","o","w",";"," ","&",":","h","o","v","e","r"," ","{"," ","c","o","l","o","r",":"," ","r","e","d"," ","}"," ","}","\n"," "," ",".","l","a","t","e","r"," ","{"," ","t","o","p",":"," ","0"," ","}","\n"," "," ",".","f","l","e","x"," ","{"," ","d","i","s","p","l","a","y",":"," ","g","r","i","d",";"," ","}","\n","}">>

GlowBlock == <<"{"," ",".","g","l","o","w"," ","{"," ","c","o","l","o","r",":"," ","g","o","l","d",";"," ","}"," ","}">>

TextA == <<"@","l","a","y","e","r"," ","b","a","s","e",";","\n",".","a"," ","{"," ","@","a","p","p","l","y"," ","g","l","o","w",";"," ","c","o","l","o","r",":"," ","b","l","u","e",";"," ","}","\n">>
TextB == <<"@","i","m","p","o","r","t"," ","\"",".","/","c",".","c","s","s","\"",";","\n",".","b"," ","{"," ","@","a","p","p","l","y"," ","n","e","o","n"," ","g","l","o","w",";"," ","}","\n">>
TextC == <<"/","*"," ","c"," ","*","/"," ","@","l","a","y","e","r"," ","b","a","s","e",";","\n">> \o LayerUtilities \o << " " >> \o GlowBlock \o << "\n" >>

\* the pieces a root file is made of
ChunkBase == LayerBase \o << "\n" >>
ChunkImportA == <<"@","i","m","p","o","r","t"," ","\"",".","/","a",".","c","s","s","\"",";","\n">>
ChunkImportB == <<"@","i","m","p","o","r","t"," ","'",".","/","s","u","b","/","b",".","c","s","s","'",";","\n">>
ChunkLayer == LayerUtilities \o << " " >> \o LayerBlock \o << "\n" >>
ChunkApply == <<".","f","o","o"," ","{"," ","@","a","p","p","l","y"," ","b","r","i","g","h","t"," ","n","e","o","n"," ","m","i","s","s","i","n","g"," ","b","g","-","g","r","e","e","n","-","6","0","0","/","2","0",";"," ","}","\n">>
ChunkImportText == <<"@","i","m","p","o","r","t"," ","\"",".","/","n","o","t","e","s",".","t","x","t","\"",";","\n">>
ChunkInvalidClass == LayerUtilities \o <<" ","{"," ","d","i","v"," ","{"," ","c","o","l","o","r",":"," ","r","e","d",";"," ","}"," ","}","\n">>
ChunkImportMissing == <<"@","i","m","p","o","r","t"," ","\"",".","/","m","i","s","s","i","n","g",".","c","s","s","\"",";","\n">>

Chunks == { ChunkBase, ChunkImportA, ChunkImportB, ChunkLayer, ChunkApply,
            ChunkImportText, ChunkInvalidClass, ChunkImportMissing }

\* the chunks whose utilities layer is malformed: an entry that is no class,
\* a layer whose closing brace is missing, a layer that ends inside a rule
\* body, '@layer utilities' before a closing brace, an entry without a block,
\* an entry at the end of the input, and '@layer utilities' at the end of the
\* input
MalformedChunks ==
  { ChunkInvalidClass,
    LayerUtilities \o <<" ","{"," ",".","d","i","m"," ","{"," ","c","o","l","o","r",":"," ","g","r","e","y",";"," ","}","\n">>,
    LayerUtilities \o <<" ","{"," ",".","d","i","m"," ","{"," ","c","o","l","o","r",":"," ","g","r","e","y",";","\n">>,
    LayerUtilities \o <<" ","}","\n">>,
    LayerUtilities \o <<" ","{"," ",".","d","i","m",";"," ",".","d","a","r","k"," ","{"," ","t","o","p",":"," ","0"," ","}"," ","}","\n">>,
    LayerUtilities \o <<" ","{"," ",".","d","i","m"," ","{"," ","c","o","l","o","r",":"," ","g","r","e","y",";"," ","}"," ",".","d","a","r","k","\n">>,
    LayerUtilities \o <<"\n">> }

\* the bound on the depth of the recursion of loadCSS
MaxDepth == 5

\* the sequences of at most n chunks
RECURSIVE ChunkSeqs(_)
ChunkSeqs(n) ==
  IF n = 0 THEN { << >> }
  ELSE LET shorter == ChunkSeqs(n - 1)
       IN  shorter \cup { Append(s, c) : s \in shorter, c \in Chunks }

\* the file system of a project whose root file is made of the chunks cs
Project(cs) ==
  (cssFile :> Flatten(cs)) @@ (FileA :> TextA) @@ (FileB :> TextB) @@ (FileC :> TextC)

\* the root files with one malformed utilities layer, between at most one
\* chunk before it and at most one after it
MalformedRoots ==
  { s \o << m >> \o t : s \in ChunkSeqs(1), m \in MalformedChunks, t \in ChunkSeqs(1) }

\* a project whose imported files import themselves (a.css) or each other
\* (b.css and c.css)
LoopProject(cs) ==
  (cssFile :> Flatten(cs)) @@ (FileA :> <<"@","i","m","p","o","r","t"," ","\"",".","/","a",".","c","s","s","\"",";","\n",".","a"," ","{"," ","c","o","l","o","r",":"," ","b","l","u","e",";"," ","}","\n">>)
  @@ (FileB :> TextB) @@ (FileC :> <<".","c"," ","{"," ","t","o","p",":"," ","0"," ","}","\n","@","i","m","p","o","r","t"," ","\"",".","/","b",".","c","s","s","\"",";","\n">>)

\* the root files of the build contexts: with and without authored utilities
BuildRoots ==
  { << ChunkBase, ChunkImportB, ChunkLayer, ChunkApply >>,
    << ChunkImportText, ChunkImportA, ChunkApply >> }

\* the contents of the source files ls() yields
Sources ==
  { <<"<","d","i","v"," ","c","l","a","s","s","=","\"","f","l","e","x"," ","m","d",":","f","l","e","x"," ","h","o","v","e","r",":","b","g","-","g","r","e","e","n","-","6","0","0","/","2","0","\"",">">>,
    <<"<","p"," ","c","l","a","s","s","=","\"","p","-","4"," ","h","o","v","e","r",":","p","-","4"," ","m","d",":","p","-","4"," ","p","t","-","4"," ","l","g",":","p","t","-","4","\"",">">>,
    <<"c","l","a","s","s","=","\"","d","a","r","k",":","h","o","v","e","r",":","p","-","0",".","5"," ","s","p","a","c","e","-","x","-","2"," ","m","d",":","s","p","a","c","e","-","x","-","2","\"">>,
    <<"c","l","a","s","s","=","\"","2","x","l",":","f","l","e","x"," ","x","l",":","h","i","d","d","e","n"," ","l","g",":","p","-","0"," ","s","m",":","p","-","4","\"">>,
    <<"c","l","a","s","s","=","\"","a","n","i","m","a","t","e","-","s","p","i","n"," ","m","d",":","a","n","i","m","a","t","e","-","s","p","i","n"," ","n","e","o","n"," ","m","d",":","n","e","o","n","\"">>,
    <<"c","l","a","s","s","=","\"","c","o","n","s","t","r","u","c","t","o","r",":","p","-","4"," ","f","o","c","u","s",":","h","o","v","e","r",":","h","i","d","d","e","n","\"">>,
    <<"c","l","a","s","s","=","'","s","m",":","b","r","i","g","h","t"," ","l","g",":","f","l","e","x"," ","x","l",":","p","-","4"," ","2","x","l",":","p","-","4","'"," ">>,
    <<"c","l","a","s","s","=","\"","l","g",":","a","n","i","m","a","t","e","-","s","p","i","n"," ","h","o","v","e","r",":","a","n","i","m","a","t","e","-","s","p","i","n","\"">>,
    <<"c","l","a","s","s","=","\"","s","m",":","m","d",":","p","-","4"," ","l","g",":","h","o","v","e","r",":","m","d",":","f","l","e","x"," ","x","l",":","x","l",":","h","i","d","d","e","n","\"">> }

(***************************************************************************)
(* makeCSSBuilder and loadCSS.  A frame is one running call of loadCSS:    *)
(* opts.filename, the reader's index, and the locals result and base.      *)
(***************************************************************************)

Frame(filename, i, result, base) ==
  [filename |-> filename, i |-> i, result |-> result, base |-> base]

Top == stack[Len(stack)]

\* the running call's frame after one iteration of its loop
Continue(i, result, base) ==
  [stack EXCEPT ![Len(stack)] = Frame(Top.filename, i, result, base)]

LayerBaseOpen == <<"@","l","a","y","e","r"," ","b","a","s","e"," ","{">>
LayerOpen == <<"@","l","a","y","e","r"," ","{">>

\* update() of makeCSSBuilder, up to the first read of loadCSS
update ==
  /\ pc = "start"
  /\ IF cssFile \in DOMAIN files
     THEN /\ filenames' = << cssFile >>
          /\ stack' = << Frame(cssFile, 0, << >>, baseLayer) >>
          /\ pc' = "loading"
          /\ error' = error
     ELSE /\ filenames' = << >>
          /\ stack' = << >>
          /\ pc' = "failed"
          /\ error' = ErrNoFile
  /\ UNCHANGED << files, rules, content, outputRules, skipClasses, scanned,
                  reader, tokens, ctx, outfile, api, config, edits >>

\* token.startsWith('@import') && inlinableImport.test(token)
isImport(token) == StartsWith(token, <<"@","i","m","p","o","r","t">>) /\ inlinableImport(token)

\* the kind of a token of loadCSS: which branch of the loop body takes it
TokenKind(token) ==
  IF token = << >> THEN "end"
  ELSE IF token = LayerBase THEN "base"
  ELSE IF isImport(token)
       THEN IF EndsWith(unescapedFilename(token), CssSuffix) THEN "import" ELSE "skipped"
  ELSE IF token = LayerUtilities THEN "utilities"
  ELSE "other"

\* a faulty variant of takeBase, which C4 must reject: base is not emptied
takeBaseKeep(t) ==
  /\ stack' = Continue(t.i, Top.result \o LayerBaseOpen \o Top.base \o << "}" >>, Top.base)
  /\ UNCHANGED << files, rules, filenames, content, pc, error, outputRules,
                  skipClasses, scanned, reader, tokens, ctx, outfile, api,
                  config, edits >>

\* loadCSS, token '@layer base;'
takeBase(t) ==
  /\ stack' = Continue(t.i, Top.result \o LayerBaseOpen \o Top.base \o << "}" >>, << >>)
  /\ UNCHANGED << files, rules, filenames, content, pc, error, outputRules,
                  skipClasses, scanned, reader, tokens, ctx, outfile, api,
                  config, edits >>

\* the recursive call of loadCSS, up to its first read
loadCall(t, filename) ==
  IF filename \in DOMAIN files
  THEN /\ stack' = Append(Continue(t.i, Top.result, Top.base),
                          Frame(filename, 0, << >>, Top.base))
       /\ filenames' = Append(filenames, filename)
       /\ UNCHANGED << pc, error >>
  ELSE /\ stack' = << >>
       /\ pc' = "failed"
       /\ error' = ErrNoFile
       /\ UNCHANGED filenames

\* loadCSS, an inlinable import of a .css file
takeImport(t) ==
  /\ loadCall(t, importedFilename(Top.filename, t.value))
  /\ UNCHANGED << files, rules, content, outputRules, skipClasses, scanned,
                  reader, tokens, ctx, outfile, api, config, edits >>

\* loadCSS, an inlinable import whose file name does not end in .css
takeSkipped(t) ==
  /\ stack' = Continue(t.i, Top.result \o t.value, Top.base)
  /\ UNCHANGED << files, rules, filenames, content, pc, error, outputRules,
                  skipClasses, scanned, reader, tokens, ctx, outfile, api,
                  config, edits >>

\* the return or the throw of extractUtilitiesLayer, e its outcome
loadExtracted(e) ==
  /\ rules' = e.rules
  /\ IF e.error = << >>
     THEN /\ stack' = Continue(e.i, Top.result, Top.base)
          /\ UNCHANGED << pc, error >>
     ELSE /\ stack' = << >>
          /\ pc' = "failed"
          /\ error' = e.error

\* loadCSS, token '@layer utilities'
takeUtilities(t) ==
  /\ loadExtracted(extractUtilitiesLayer(files[Top.filename], t.i, rules))
  /\ UNCHANGED << files, filenames, content, outputRules, skipClasses,
                  scanned, reader, tokens, ctx, outfile, api, config, edits >>

\* loadCSS, any other token
takeOther(t) ==
  /\ stack' = Continue(t.i, Top.result \o expandApply(t.value, rules), Top.base)
  /\ UNCHANGED << files, rules, filenames, content, pc, error, outputRules,
                  skipClasses, scanned, reader, tokens, ctx, outfile, api,
                  config, edits >>

\* the importing call's frame after the import statement: result +=
\* `@layer {${loadCSS(...)}}`
Returned(parent, result) ==
  Frame(parent.filename, parent.i, parent.result \o LayerOpen \o result \o << "}" >>,
        parent.base)

\* loadCSS, end of input: return result, to the importing call or to update()
takeEnd(t) ==
  /\ IF Len(stack) = 1
     THEN /\ content' = Top.result
          /\ stack' = << >>
          /\ pc' = "loaded"
     ELSE /\ stack' = [SubSeq(stack, 1, Len(stack) - 1) EXCEPT ![Len(stack) - 1] =
                         Returned(stack[Len(stack) - 1], Top.result)]
          /\ UNCHANGED << content, pc >>
  /\ UNCHANGED << files, rules, filenames, error, outputRules, skipClasses,
                  scanned, reader, tokens, ctx, outfile, api, config, edits >>

\* r.read() of the running call
Tok == read(files[Top.filename], Top.i)

\* the branch of the loop body the token read takes
Kind == TokenKind(Tok.value)

loadBase == pc = "loading" /\ Kind = "base" /\ takeBase(Tok)

loadImport ==
  pc = "loading" /\ Kind = "import" /\ Len(stack) < MaxDepth /\ takeImport(Tok)

loadImportSkipped == pc = "loading" /\ Kind = "skipped" /\ takeSkipped(Tok)

loadUtilities == pc = "loading" /\ Kind = "utilities" /\ takeUtilities(Tok)

loadOther == pc = "loading" /\ Kind = "other" /\ takeOther(Tok)

loadReturn == pc = "loading" /\ Kind = "end" /\ takeEnd(Tok)

\* one iteration of the loop of the running loadCSS call
loadCSS ==
  \/ loadBase
  \/ loadImport
  \/ loadImportSkipped
  \/ loadUtilities
  \/ loadOther
  \/ loadReturn

(***************************************************************************)
(* index.ts: the build context.  makeBuildContext creates the rule table,  *)
(* then the CSS builder, whose constructor runs a whole pass, then the     *)
(* utility layer builder, and then calls its update() with the sources.    *)
(***************************************************************************)

\* a faulty variant of builderReady, which C7 must reject: the builder is
\* used while the pass is running
builderReadyEarly == pc \in {"loading", "loaded"}

\* makeUtilitiesLayerBuilder is called after makeCSSBuilder has returned
builderReady == pc = "loaded"

\* the assignments of update() of the utility layer builder, u the outcome of
\* its loop
updated(u) == outputRules' = u.outputRules /\ skipClasses' = u.skipClasses

\* utilityBuilder.update(sources), for one source text
utilityUpdate ==
  \E source \in Sources :
    /\ builderReady
    /\ Cardinality(scanned \cup {source}) <= MaxUpdates
    /\ updated(updateClasses(sourceClasses(source), rules, breakpoints,
                             outputRules, skipClasses))
    /\ scanned' = scanned \cup {source}
    /\ UNCHANGED << files, rules, stack, filenames, content, pc, error,
                    reader, tokens, ctx, outfile, api, config, edits >>

\* utilityBuilder.toString(): [css, error]
toString == stringifyUtilities(breakpoints, outputRules)

(***************************************************************************)
(* css-parser.ts: a reader.  parseCSS(css) returns an object that closes   *)
(* over the text and the index i and holds the last token in value;        *)
(* tokens records the values the read() calls on it have returned.         *)
(***************************************************************************)

\* the bound on the length of the enumerated texts
MaxLen == 4

\* the bound on the number of read() calls on one reader
MaxReads == 12

\* the characters of the enumerated texts
Alphabet == { "a", " ", ";", "{", "}", "\\", "\"", "/", "*" }

\* the texts of at most n characters
RECURSIVE TextsUpTo(_)
TextsUpTo(n) ==
  IF n = 0 THEN { << >> }
  ELSE LET shorter == TextsUpTo(n - 1)
       IN  shorter \cup { Append(s, c) : s \in shorter, c \in Alphabet }

\* the texts of css-parser.test.ts, and texts with escaped characters, with
\* nothing but a comment, and with a selector that no block follows
ReaderSamples ==
  { <<"/","*"," ","a"," ","*","/","b",";","/","*"," ","c"," ","*","/","d",";">>,
    <<".","f","o","o"," ","{"," ","c","o","n","t","e","n","t",":"," ","\"","'","/","*","*","/","{","}","\\","\"","\"",";"," ","}">>,
    <<"@","t","a","i","l","w","i","n","d"," ","b","a","s","e",";","\n",".","f","o","o"," ","{","\n"," "," ","c","o","l","o","r",":"," ","r","e","d",";","\n","}","\n">>,
    <<".","f","o","o"," ","/","*"," ","b","a","r">>,
    <<".","f","o","o","{","c","o","l","o","r",":"," ","r","e","d","}">>,
    <<".","b","a","r","/","*"," ","h","i"," ","*","/","{","b","o","r","d","e","r",":"," ","2","p","x","/","*","*","/","s","o","l","i","d",";"," ","}">>,
    <<".","s","m","\\",":","f","l","e","x"," ","{"," ","t","o","p",":"," ","0"," ","}">>,
    <<"a","\\",";","b",";"," ","c",";">>,
    <<".","x","\\","{","y"," ","{"," ","}">>,
    <<" "," ","/","*"," ","o","n","l","y"," ","*","/"," "," ">>,
    <<".","s","e","l","e","c","t","o","r">> }

\* writeCSS's variable ctx before the first build context was made; files holds
\* the file system the context was built from, and again tells that the
\* context before it was built from the same one
NoContext ==
  [built |-> FALSE, again |-> FALSE, files |-> << >>, content |-> << >>,
   filenames |-> << >>, rules |-> << >>]

\* opts.outfile before it was written
NoOutfile == [exists |-> FALSE, text |-> << >>]

\* the state of the variables while no reader exists
NoReader == [css |-> << >>, i |-> 0, value |-> << >>]

\* parseCSS(css): let i = 0; value: ''
parseCSS(css) == [css |-> css, i |-> 0, value |-> << >>]

\* the last two read() calls returned the empty string
ReadOut ==
  /\ Len(tokens) >= 2
  /\ tokens[Len(tokens)] = << >>
  /\ tokens[Len(tokens) - 1] = << >>

\* the assignments of one read() call, r the outcome of its loop
readDone(r) ==
  /\ reader' = [css |-> reader.css, i |-> r.i, value |-> r.value]
  /\ tokens' = Append(tokens, r.value)

\* reader.read()
readerRead ==
  /\ pc = "reading"
  /\ Len(tokens) < MaxReads
  /\ ~ReadOut
  /\ readDone(read(reader.css, reader.i))
  /\ UNCHANGED << files, rules, stack, filenames, content, pc, error,
                  outputRules, skipClasses, scanned, ctx, outfile, api, config,
                  edits >>

\* a reader over each of the texts
InitRead ==
  /\ config = compileConfig([k \in DOMAIN defaultConfig |-> << >>])
  /\ reader \in { parseCSS(css) : css \in TextsUpTo(MaxLen) \cup ReaderSamples }
  /\ tokens = << >>
  /\ files = << >>
  /\ rules = << >>
  /\ stack = << >>
  /\ filenames = << >>
  /\ content = << >>
  /\ pc = "reading"
  /\ error = << >>
  /\ outputRules = << >>
  /\ skipClasses = {}
  /\ scanned = {}
  /\ ctx = NoContext
  /\ outfile = NoOutfile
  /\ api = "parseCSS"
  /\ edits = 0

NextRead == readerRead

SpecRead == InitRead /\ [][NextRead]_vars

\* one pass of the processor over every project of at most MaxChunks chunks
InitCss ==
  /\ config = compileConfig([k \in DOMAIN defaultConfig |-> << >>])
  /\ files \in { Project(cs) : cs \in ChunkSeqs(MaxChunks) }
  /\ rules = InitialRules
  /\ stack = << >>
  /\ filenames = << >>
  /\ content = << >>
  /\ pc = "start"
  /\ error = << >>
  /\ outputRules = << >>
  /\ skipClasses = {}
  /\ scanned = {}
  /\ ctx = NoContext
  /\ outfile = NoOutfile
  /\ api = "makeCSSBuilder"
  /\ edits = 0
  /\ reader = NoReader
  /\ tokens = << >>

NextCss == update \/ loadCSS

SpecCss == InitCss /\ [][NextCss]_vars

\* a build context over each of the root files BuildRoots
InitBuild ==
  /\ config = compileConfig([k \in DOMAIN defaultConfig |-> << >>])
  /\ files \in { Project(cs) : cs \in BuildRoots }
  /\ rules = InitialRules
  /\ stack = << >>
  /\ filenames = << >>
  /\ content = << >>
  /\ pc = "start"
  /\ error = << >>
  /\ outputRules = << >>
  /\ skipClasses = {}
  /\ scanned = {}
  /\ ctx = NoContext
  /\ outfile = NoOutfile
  /\ api = "stringifyCSS"
  /\ edits = 0
  /\ reader = NoReader
  /\ tokens = << >>

NextBuild == update \/ loadCSS \/ utilityUpdate

SpecBuild == InitBuild /\ [][NextBuild]_vars


(***************************************************************************)
(* index.ts: writeCSS and its watch mode, and css-processor.ts:            *)
(* makeCSSBuilder used on its own (api).  In watch mode a change of a CSS  *)
(* file makes a new build context, with a new rule table and a new CSS     *)
(* builder; a builder used on its own is updated in place.  ls() yields    *)
(* one source file, whose text is the element of scanned.                  *)
(***************************************************************************)

\* the bound on the number of changes of the CSS files
MaxEdits == 2

\* the root files of the watched project: two that load, the first with
\* imports and authored utilities, and two on which the pass throws, the first
\* after it has written to the rule table
WatchRoots ==
  { << ChunkBase, ChunkImportB, ChunkLayer, ChunkApply >>,
    << ChunkImportA, ChunkImportText >>,
    << ChunkLayer, ChunkImportMissing >>,
    << ChunkInvalidClass >> }

Projects == { Project(cs) : cs \in WatchRoots }

\* the source file of the watched project: two texts that serialize, the
\* first and the last, and one on which toString() of the utility layer
\* builder throws
WatchedSources ==
  { <<"<","d","i","v"," ","c","l","a","s","s","=","\"","f","l","e","x"," ","m","d",":","f","l","e","x"," ","h","o","v","e","r",":","b","g","-","g","r","e","e","n","-","6","0","0","/","2","0","\"",">">>,
    <<"c","l","a","s","s","=","\"","c","o","n","s","t","r","u","c","t","o","r",":","p","-","4"," ","f","o","c","u","s",":","h","o","v","e","r",":","h","i","d","d","e","n","\"">>,
    <<"<","p"," ","c","l","a","s","s","=","\"","p","-","4"," ","h","o","v","e","r",":","p","-","4"," ","m","d",":","h","i","d","d","e","n"," ","p","t","-","4","\"",">">> }

\* a faulty variant of contextRules, which C19 must reject: the table the
\* pass before has written to is used again
contextRulesKept == rules

\* makeBuildContext: const rules = configToRules(config)
contextRules == InitialRules

\* a faulty variant of updateContent, which C20 must reject: update() clears
\* content before it calls loadCSS
updateContentCleared == << >>

\* update() of makeCSSBuilder assigns content when loadCSS has returned: while
\* the pass runs content is what it was
updateContent == content

\* update() of makeCSSBuilder over the file system fs, up to the first read of
\* loadCSS
updateOver(fs) ==
  IF cssFile \in DOMAIN fs
  THEN /\ filenames' = << cssFile >>
       /\ stack' = << Frame(cssFile, 0, << >>, baseLayer) >>
       /\ pc' = "loading"
       /\ error' = << >>
  ELSE /\ filenames' = << >>
       /\ stack' = << >>
       /\ pc' = "failed"
       /\ error' = ErrNoFile

\* a CSS file has changed (or was saved unchanged) and cssWatcher's onChange
\* runs ctx = makeBuildContext(opts), up to the first read of loadCSS; ctx is
\* assigned when makeBuildContext returns
onChange ==
  /\ api = "writeCSS"
  /\ pc = "written"
  /\ edits < MaxEdits
  /\ \E fs \in Projects : files' = fs /\ updateOver(fs)
  /\ rules' = contextRules
  /\ content' = << >>
  /\ outputRules' = << >>
  /\ skipClasses' = {}
  /\ edits' = edits + 1
  /\ UNCHANGED << scanned, reader, tokens, ctx, outfile, api, config >>

\* a CSS file has changed and update() is called on the CSS builder in use, up
\* to the first read of loadCSS; there is a builder once its constructor has
\* returned
builderUpdate ==
  /\ api = "makeCSSBuilder"
  /\ pc = "loaded" \/ (pc = "failed" /\ edits > 0)
  /\ edits < MaxEdits
  /\ \E fs \in Projects : files' = fs /\ updateOver(fs)
  /\ content' = updateContent
  /\ edits' = edits + 1
  /\ UNCHANGED << rules, outputRules, skipClasses, scanned, reader, tokens, ctx,
                  outfile, api, config >>

\* the build context makeBuildContext returns
Context ==
  [built |-> TRUE, again |-> ctx.built /\ ctx.files = files, files |-> files,
   content |-> content, filenames |-> filenames, rules |-> rules]

\* makeBuildContext once makeCSSBuilder has returned: the utility layer
\* builder is made and updated with the sources, and the context is returned
\* and assigned to ctx
contextBuilt ==
  /\ api = "writeCSS"
  /\ pc = "loaded"
  /\ \E source \in scanned :
       updated(updateClasses(sourceClasses(source), rules, breakpoints, << >>, {}))
  /\ ctx' = Context
  /\ pc' = "built"
  /\ UNCHANGED << files, rules, stack, filenames, content, error, scanned, reader,
                  tokens, outfile, api, config, edits >>

\* ctx.toString(): cssBuilder.toString() + utilityBuilder.toString()
contextText == content \o toString.css

\* the inner writeCSS: fs.writeFileSync(opts.outfile, ctx.toString(), 'utf8');
\* nothing is written when toString() throws
writeCSS ==
  /\ api = "writeCSS"
  /\ pc = "built"
  /\ IF toString.error = << >>
     THEN /\ outfile' = [exists |-> TRUE, text |-> contextText]
          /\ pc' = "written"
          /\ error' = error
     ELSE /\ outfile' = outfile
          /\ pc' = "failed"
          /\ error' = toString.error
  /\ UNCHANGED << files, rules, stack, filenames, content, outputRules, skipClasses,
                  scanned, reader, tokens, ctx, api, config, edits >>

\* a faulty variant of sourceChange, which C26 must reject: the builder is
\* emptied before it is updated
sourceChangeRescan ==
  /\ api = "writeCSS"
  /\ pc = "written"
  /\ \E source \in WatchedSources :
       /\ scanned' = {source}
       /\ updated(updateClasses(sourceClasses(source), rules, breakpoints, << >>, {}))
  /\ pc' = "built"
  /\ UNCHANGED << files, rules, stack, filenames, content, error, reader, tokens,
                  ctx, outfile, api, config, edits >>

\* a matching source file has changed and sourceWatcher's callback runs
\* ctx.utilityBuilder.update([fs.readFileSync(filename, 'utf8')]); the inner
\* writeCSS follows
sourceChange ==
  /\ api = "writeCSS"
  /\ pc = "written"
  /\ \E source \in WatchedSources :
       /\ scanned' = {source}
       /\ updated(updateClasses(sourceClasses(source), rules, breakpoints,
                                outputRules, skipClasses))
  /\ pc' = "built"
  /\ UNCHANGED << files, rules, stack, filenames, content, error, reader, tokens,
                  ctx, outfile, api, config, edits >>

\* writeCSS in watch mode over every watched project and source, and a CSS
\* builder made on its own
InitWatch ==
  /\ config = compileConfig([k \in DOMAIN defaultConfig |-> << >>])
  /\ files \in Projects
  /\ rules = InitialRules
  /\ stack = << >>
  /\ filenames = << >>
  /\ content = << >>
  /\ pc = "start"
  /\ error = << >>
  /\ outputRules = << >>
  /\ skipClasses = {}
  /\ \/ api = "writeCSS" /\ scanned \in { {source} : source \in WatchedSources }
     \/ api = "makeCSSBuilder" /\ scanned = {}
  /\ reader = NoReader
  /\ tokens = << >>
  /\ ctx = NoContext
  /\ outfile = NoOutfile
  /\ edits = 0

NextWatch ==
  update \/ loadCSS \/ contextBuilt \/ writeCSS \/ onChange \/ builderUpdate \/ sourceChange

SpecWatch == InitWatch /\ [][NextWatch]_vars

\* update() is called again on the CSS builder while the files are unchanged,
\* up to the first read of loadCSS
updateAgain ==
  /\ api = "makeCSSBuilder"
  /\ pc = "loaded"
  /\ edits < MaxEdits
  /\ updateOver(files)
  /\ content' = updateContent
  /\ edits' = edits + 1
  /\ UNCHANGED << files, rules, outputRules, skipClasses, scanned, reader, tokens,
                  ctx, outfile, api, config >>

\* a CSS builder over every project of at most MaxChunks chunks, every project
\* with a malformed utilities layer, every project with cyclic imports, and a
\* project that applies generated rules one at a time
InitPass ==
  /\ config = compileConfig([k \in DOMAIN defaultConfig |-> << >>])
  /\ files \in { Project(cs) : cs \in ChunkSeqs(MaxChunks) \cup MalformedRoots }
               \cup { LoopProject(cs) : cs \in ChunkSeqs(MaxChunks) }
               \cup { Project(<< <<".","x"," ","{"," ","@","a","p","p","l","y"," ","p","-","4",";"," ","@","a","p","p","l","y"," ","p","-","0",".","5",";"," ","@","a","p","p","l","y"," ","b","g","-","g","r","e","e","n","-","6","0","0","/","2","0",";"," ","}","\n">> >>) }
  /\ rules = InitialRules
  /\ stack = << >>
  /\ filenames = << >>
  /\ content = << >>
  /\ pc = "start"
  /\ error = << >>
  /\ outputRules = << >>
  /\ skipClasses = {}
  /\ scanned = {}
  /\ reader = NoReader
  /\ tokens = << >>
  /\ ctx = NoContext
  /\ outfile = NoOutfile
  /\ api = "makeCSSBuilder"
  /\ edits = 0

NextPass == update \/ loadCSS \/ updateAgain

SpecPass == InitPass /\ [][NextPass]_vars

(***************************************************************************)
(* makeBuildContext, up to the rule table: compileConfig(opts.config) and  *)
(* configToRules(config)                                                   *)
(***************************************************************************)

\* const rules = configToRules(config)
generate ==
  /\ api = "configToRules"
  /\ pc = "start"
  /\ rules' = configToRules(config)
  /\ pc' = "generated"
  /\ UNCHANGED << files, stack, filenames, content, error, outputRules,
                  skipClasses, scanned, reader, tokens, ctx, outfile, api,
                  config, edits >>

\* the configurations compiled from the options that add or replace colors,
\* spacings and border widths
InitRules ==
  /\ LET of(section) == { [k \in keys |-> section[k]] : keys \in SUBSET DOMAIN section }
     IN  config \in
           { compileConfig([color |-> c, spacing |-> s, size |-> << >>, borderWidth |-> w,
                            borderRadius |-> << >>]) :
             c \in of((<<"b","r","a","n","d">> :> <<"#","f","f","0","0","0","2">>) @@ (<<"g","r","e","e","n","-","6","0","0">> :> <<"#","0","f","0">>)
                      @@ (<<"i","n","k">> :> <<"i","n","h","e","r","i","t">>)),
             s \in of((<<"1","8">> :> <<"4",".","5","r","e","m">>) @@ (<<"0",".","5">> :> <<"2","p","x">>)),
             w \in of((<<"6">> :> <<"6","p","x">>) @@ (<<"D","E","F","A","U","L","T">> :> <<"2","p","x">>)) }
  /\ files = << >>
  /\ rules = << >>
  /\ stack = << >>
  /\ filenames = << >>
  /\ content = << >>
  /\ pc = "start"
  /\ error = << >>
  /\ outputRules = << >>
  /\ skipClasses = {}
  /\ scanned = {}
  /\ reader = NoReader
  /\ tokens = << >>
  /\ ctx = NoContext
  /\ outfile = NoOutfile
  /\ api = "configToRules"
  /\ edits = 0

SpecRules == InitRules /\ [][generate]_vars

(***************************************************************************)
(* Properties of the CSS processor, checked under SpecCss.                 *)
(***************************************************************************)

\* the frame of the running call after a step that neither calls nor returns
TopAfter == stack'[Len(stack)]

\* a token '@apply n1 n2 ...;' whose names are made of [\w-\/] only
IsPlainApply(token) ==
  /\ StartsWith(token, <<"@","a","p","p","l","y"," ">>)
  /\ token[Len(token)] = ";"
  /\ \A k \in 8..(Len(token) - 1) : IsApplyNameChar(token[k]) \/ token[k] = " "

\* the names an @apply token lists, in the order they are written
ListedNames(token) == split(SubSeq(token, 8, Len(token) - 1), " ")

\* the css body a name stands for in a table: empty for an absent name
BodyOf(table, name) == IF name \in DOMAIN table THEN table[name].css ELSE << >>

\* the bodies of the listed names, concatenated in list order
ListedBodies(token, table) ==
  Flatten([k \in 1..Len(ListedNames(token)) |-> BodyOf(table, ListedNames(token)[k])])

C1_Step ==
  (pc = "loading" /\ IsPlainApply(Tok.value)) =>
    /\ pc' = "loading"
    /\ error' = error
    /\ rules' = rules
    /\ Len(stack') = Len(stack)
    /\ TopAfter.result = Top.result \o ListedBodies(Tok.value, rules)

\* C1: a token that starts with @apply is replaced by the css bodies of the
\* rules it names, concatenated in the order the names are written and looked
\* up in the rule table as it stands when the token is read; an absent name
\* contributes the empty text and raises no error.
C1_ApplyInListOrder == [][C1_Step]_vars

\* C1: the list 'bright neon missing bg-green-600/20' has been expanded, with
\* bright and neon in the table and missing absent
C1_Witness ==
  /\ pc = "loading"
  /\ <<"b","r","i","g","h","t">> \in DOMAIN rules
  /\ <<"n","e","o","n">> \in DOMAIN rules
  /\ <<"m","i","s","s","i","n","g">> \notin DOMAIN rules
  /\ \E k \in 1..Len(stack) :
       Includes(stack[k].result,
                <<".","f","o","o","{">> \o rules[<<"b","r","i","g","h","t">>].css \o rules[<<"n","e","o","n">>].css
                \o <<"b","a","c","k","g","r","o","u","n","d","-","c","o","l","o","r",":"," ","r","g","b","(","2","2"," ","1","6","3"," ","7","4"," ","/"," ","0",".","2",")",";">>)

\* a token @import "<p>"; or @import '<p>'; whose path starts with ./, ends
\* in .css and has no escape and no further dot segment
IsCssImport(token) ==
  LET n == Len(token) IN
  /\ StartsWith(token, <<"@","i","m","p","o","r","t"," ">>)
  /\ n >= 17
  /\ token[9] \in {"'", "\""}
  /\ token[n - 1] = token[9]
  /\ token[n] = ";"
  /\ SubSeq(token, 10, 11) = <<".","/">>
  /\ SubSeq(token, n - 5, n - 2) = <<".","c","s","s">>
  /\ \A k \in 12..(n - 2) : token[k] \notin {"'", "\"", "\\"}
  /\ ~Includes(SubSeq(token, 11, n - 2), <<"/",".">>)

\* the directory of a file name
DirOf(filename) ==
  SubSeq(filename, 1,
         (CHOOSE k \in 1..Len(filename) :
            filename[k] = "/" /\ \A j \in (k + 1)..Len(filename) : filename[j] # "/") - 1)

\* the path of such an import resolved against the importing file's directory
Resolved(filename, token) ==
  DirOf(filename) \o SubSeq(token, 11, Len(token) - 2)

C2_Call ==
  (/\ pc = "loading"
   /\ IsCssImport(Tok.value)
   /\ Resolved(Top.filename, Tok.value) \in DOMAIN files) =>
    /\ pc' = "loading"
    /\ rules' = rules
    /\ filenames' = Append(filenames, Resolved(Top.filename, Tok.value))
    /\ Len(stack') = Len(stack) + 1
    /\ stack'[Len(stack')].filename = Resolved(Top.filename, Tok.value)
    /\ stack'[Len(stack')].i = 0
    /\ stack'[Len(stack')].result = << >>
    /\ TopAfter.result = Top.result
    /\ \A k \in 1..(Len(stack) - 1) : stack'[k] = stack[k]

C2_Return ==
  (pc = "loading" /\ Len(stack) > 1 /\ Tok.value = << >>) =>
    /\ pc' = "loading"
    /\ rules' = rules
    /\ filenames' = filenames
    /\ Len(stack') = Len(stack) - 1
    /\ stack'[Len(stack')].result =
         stack[Len(stack) - 1].result \o <<"@","l","a","y","e","r"," ","{">> \o Top.result \o <<"}">>
    /\ stack'[Len(stack')].i = stack[Len(stack) - 1].i

C2_Filenames ==
  /\ filenames' # << >> => filenames'[1] = cssFile
  /\ pc = "loading" =>
       \/ filenames' = filenames
       \/ Len(filenames') = Len(filenames) + 1 /\ SubSeq(filenames', 1, Len(filenames)) = filenames

\* C2: an import of a path that starts with . and ends in .css loads the path
\* resolved against the directory of the importing file, processes it with the
\* same rule table, and puts '@layer {' + the child's output + '}' at the place
\* of the import; the resolved name is appended to the tracked filenames, which
\* hold the root file first and then every loaded file in load order.
C2_ImportInlined == [][C2_Call /\ C2_Return /\ C2_Filenames]_vars

\* C2: the root file that imports ./a.css has been processed
C2_Witness ==
  /\ pc = "loaded"
  /\ filenames = << cssFile, FileA >>
  /\ content = <<"@","l","a","y","e","r"," ","{","@","l","a","y","e","r"," ","b","a","s","e"," ","{",".","b","a","s","e","{","c","o","n","t","e","n","t",":"," ","'","n","o"," ","t","r","e","b","l","e","'","}","}",".","a","{","c","o","l","o","r",":"," ","b","l","u","e",";","}","}">>

\* the number of places at which p occurs in s
Occurrences(s, p) ==
  Cardinality({k \in 0..(Len(s) - Len(p)) : SubSeq(s, k + 1, k + Len(p)) = p})

\* C3: in one pass over a root file and its imports the non-empty base text
\* appears at most once in the output, wherever the '@layer base;' tokens lie.
C3_BaseAtMostOnce == pc = "loaded" => Occurrences(content, baseLayer) <= 1

\* an '@layer base;' token has been replaced earlier in the pass
BaseInjected == \E k \in 1..Len(stack) : Includes(stack[k].result, LayerBaseOpen)

BaseReadOnPath ==
  \E k \in 1..Len(stack) :
    Includes(Slice(files[stack[k].filename], 0, stack[k].i), LayerBase)

LayerSamples ==
  { [text |-> LayerBlock,
     entries |-> << [name |-> <<"n","e","o","n">>, body |-> << <<"c","o","l","o","r",":"," ","p","i","n","k",";">> >>],
                    [name |-> <<"b","r","i","g","h","t">>,
                     body |-> << <<"@","a","p","p","l","y"," ","n","e","o","n"," ","f","l","e","x"," ","b","r","i","g","h","t"," ","l","a","t","e","r",";">>, <<"b","a","c","k","g","r","o","u","n","d",":"," ","y","e","l","l","o","w",";">>,
                                 <<"&",":","h","o","v","e","r">>, <<"{">>, <<"c","o","l","o","r",":"," ","r","e","d">>, <<"}">> >>],
                    [name |-> <<"l","a","t","e","r">>, body |-> << <<"t","o","p",":"," ","0">> >>],
                    [name |-> <<"f","l","e","x">>, body |-> << <<"d","i","s","p","l","a","y",":"," ","g","r","i","d",";">> >>] >>],
    [text |-> GlowBlock,
     entries |-> << [name |-> <<"g","l","o","w">>, body |-> << <<"c","o","l","o","r",":"," ","g","o","l","d",";">> >>] >>] }

\* a token of a body, with an @apply list replaced by the listed bodies
ExpandedToken(token, table) ==
  IF IsPlainApply(token) THEN ListedBodies(token, table) ELSE token

\* the table after the first k entries were stored, one after the other
RECURSIVE Registered(_, _, _)
Registered(entries, k, table) ==
  IF k = 0 THEN table
  ELSE LET sofar == Registered(entries, k - 1, table)
           css == Flatten([j \in 1..Len(entries[k].body) |->
                             ExpandedToken(entries[k].body[j], sofar)])
       IN  (entries[k].name :>
              [specificity |-> k, css |-> css, suffix |-> << >>, sibling |-> << >>])
           @@ sofar

\* the running call is about to read the block of the sample
AtLayer(sample) ==
  /\ pc = "loading"
  /\ Tok.value = LayerUtilities
  /\ StartsWith(Slice(files[Top.filename], Tok.i, Len(files[Top.filename])), sample.text)

C5_Step ==
  \A sample \in LayerSamples :
    AtLayer(sample) =>
      /\ pc' = "loading"
      /\ Len(stack') = Len(stack)
      /\ TopAfter.result = Top.result
      /\ TopAfter.i = Tok.i + Len(sample.text)
      /\ rules' = Registered(sample.entries, Len(sample.entries), rules)
      /\ \A k \in 1..Len(sample.entries) :
           /\ rules'[sample.entries[k].name].specificity = k
           /\ expandApply(<<"@","a","p","p","l","y"," ">> \o sample.entries[k].name \o <<";">>, rules')
                = rules'[sample.entries[k].name].css

\* C5: on '@layer utilities' the processor consumes the whole following block
\* and emits nothing; for each top-level entry '.name { body }', in declaration
\* order, it stores under name a rule whose css is everything between the
\* entry's braces, nested blocks included, and whose specificity is 1 for the
\* first entry and one more for each following one, replacing any rule stored
\* under that name; an '@apply name' read afterwards expands to that body.
C5_LayerRegistered == [][C5_Step]_vars

\* C5: the block with a nested block and an override of the generated rule
\* flex has been read
C5_Witness ==
  /\ pc \in {"loading", "loaded"}
  /\ <<"b","r","i","g","h","t">> \in DOMAIN rules
  /\ rules[<<"b","r","i","g","h","t">>].specificity = 2
  /\ rules[<<"b","r","i","g","h","t">>].css =
       <<"c","o","l","o","r",":"," ","p","i","n","k",";","d","i","s","p","l","a","y",":"," ","f","l","e","x",";","b","a","c","k","g","r","o","u","n","d",":"," ","y","e","l","l","o","w",";","&",":","h","o","v","e","r","{","c","o","l","o","r",":"," ","r","e","d","}">>
  /\ rules[<<"f","l","e","x">>] = [specificity |-> 4, css |-> <<"d","i","s","p","l","a","y",":"," ","g","r","i","d",";">>,
                        suffix |-> << >>, sibling |-> << >>]

\* the names the files declare, and the block that declares each
AuthoredNames == { <<"n","e","o","n">>, <<"b","r","i","g","h","t">>, <<"l","a","t","e","r">>, <<"g","l","o","w">> }

DeclaringBlock(name) == IF name = <<"g","l","o","w">> THEN GlowBlock ELSE LayerBlock

\* the part of a loaded file the pass has read so far
Consumed(filename) ==
  IF pc = "loading"
     /\ Cardinality({k \in 1..Len(filenames) : filenames[k] = filename}) = 1
     /\ \E k \in 1..Len(stack) : stack[k].filename = filename
  THEN LET k == CHOOSE k \in 1..Len(stack) : stack[k].filename = filename
       IN  Slice(files[filename], 0, stack[k].i)
  ELSE files[filename]

\* the block that declares the name wholly precedes the reader in document order
DeclaredBefore(name) ==
  \E k \in 1..Len(filenames) : Includes(Consumed(filenames[k]), DeclaringBlock(name))

\* the table without the authored names whose block has not been read
VisibleTable ==
  [n \in {m \in DOMAIN rules : m \in AuthoredNames => DeclaredBefore(m)} |-> rules[n]]

C6_Visible ==
  pc \in {"loading", "loaded"} =>
    \A name \in AuthoredNames : name \in DOMAIN rules <=> DeclaredBefore(name)

C6_InBlock ==
  AtLayer([text |-> LayerBlock]) =>
    /\ rules'[<<"n","e","o","n">>].css = <<"c","o","l","o","r",":"," ","p","i","n","k",";">>
    /\ rules'[<<"b","r","i","g","h","t">>].css =
         rules'[<<"n","e","o","n">>].css \o BodyOf(rules, <<"f","l","e","x">>) \o BodyOf(rules, <<"b","r","i","g","h","t">>)
         \o BodyOf(rules, <<"l","a","t","e","r">>) \o <<"b","a","c","k","g","r","o","u","n","d",":"," ","y","e","l","l","o","w",";","&",":","h","o","v","e","r","{","c","o","l","o","r",":"," ","r","e","d","}">>

C6_Outside ==
  (pc = "loading" /\ IsPlainApply(Tok.value)) =>
    TopAfter.result = Top.result \o ListedBodies(Tok.value, VisibleTable)

\* C6: within one pass @apply is resolved against the rule table as it stands
\* when the token is read in document order: the body of an entry of an
\* '@layer utilities' block can use the entries declared earlier in the block
\* but neither itself nor the entries declared later, and an @apply outside the
\* block sees a name declared in the block only if the whole block precedes it.
C6_ApplyInDocumentOrder == [][C6_InBlock /\ C6_Outside /\ C6_Visible']_vars

\* C6: the list 'bright neon missing bg-green-600/20' was read before the
\* block that declares bright and neon
C6_Witness ==
  /\ pc = "loaded"
  /\ <<"n","e","o","n">> \in DOMAIN rules
  /\ content = <<".","f","o","o","{","b","a","c","k","g","r","o","u","n","d","-","c","o","l","o","r",":"," ","r","g","b","(","2","2"," ","1","6","3"," ","7","4"," ","/"," ","0",".","2",")",";","}">>

(***************************************************************************)
(* Properties of the build context, checked under SpecBuild.               *)
(***************************************************************************)

\* C7: in a build context the writes to the shared rule table are ordered:
\* the generated table is filled, the processor pass runs to completion, and
\* only then the utility layer builder resolves a candidate; every output rule
\* is therefore the resolution of a candidate against the table as the pass
\* left it, with the authored body and specificity of a name an authored
\* '@layer utilities' block declares, also when a generated rule had the name.
C7_BuilderAfterPass ==
  /\ (skipClasses # {} \/ outputRules # << >>) => pc = "loaded"
  /\ \A k \in 1..Len(outputRules) :
       \E c \in skipClasses : makeOutputRule(c, rules, breakpoints) = << outputRules[k] >>

\* C7: the class flex, generated as 'display: flex;' and declared by the root
\* file as 'display: grid;', has been resolved and serialized
C7_Witness ==
  /\ pc = "loaded"
  /\ InitialRules[<<"f","l","e","x">>].css = <<"d","i","s","p","l","a","y",":"," ","f","l","e","x",";">>
  /\ \E k \in 1..Len(outputRules) :
       /\ outputRules[k].selector = <<".","f","l","e","x">>
       /\ outputRules[k].css = <<"d","i","s","p","l","a","y",":"," ","g","r","i","d",";">>
       /\ outputRules[k].specificity = 4
  /\ Includes(toString.css, <<".","f","l","e","x","{","d","i","s","p","l","a","y",":"," ","g","r","i","d",";","}">>)

\* the modifiers of a candidate, in the order they are written, and its base name
Modifiers(c) == SubSeq(split(c, ":"), 1, Len(split(c, ":")) - 1)

BaseName(c) == split(c, ":")[Len(split(c, ":"))]

\* a text with every ':', '/' and '.' preceded by a backslash
Escaped(s) ==
  Flatten([k \in 1..Len(s) |->
             IF s[k] \in {":", "/", "."} THEN << "\\", s[k] >> ELSE << s[k] >>])

IsPseudo(m) == m # <<"d","a","r","k">> /\ m \notin DOMAIN breakpoints

\* the selector the claim describes; the modifier nearest to the base name
\* comes first among the appended ones
ExpectedSelector(c) ==
  LET pseudos == SelectSeq(reverse(Modifiers(c)), IsPseudo)
  IN  (IF \E k \in 1..Len(Modifiers(c)) : Modifiers(c)[k] = <<"d","a","r","k">> THEN <<".","d","a","r","k"," ">> ELSE << >>)
      \o << "." >> \o Escaped(c)
      \o Flatten([k \in 1..Len(pseudos) |-> << ":" >> \o pseudos[k]])
      \o rules[BaseName(c)].suffix

\* C8: for a candidate whose base name is in the rule table the output
\* selector is '.' + the candidate with every ':', '/' and '.' escaped,
\* prefixed by '.dark ' if it has the modifier dark, extended by ':m' for every
\* modifier m that is neither dark nor a configured breakpoint key, and
\* followed by the rule's suffix; a breakpoint modifier changes nothing else.
C8_Selector ==
  pc = "loaded" =>
    \A c \in skipClasses :
      BaseName(c) \in DOMAIN rules =>
        \E k \in 1..Len(outputRules) : outputRules[k].selector = ExpectedSelector(c)

\* the class stands in the source between spaces or quotes
Stands(source, class) ==
  \E k \in 2..(Len(source) - Len(class)) :
    /\ SubSeq(source, k, k + Len(class) - 1) = class
    /\ source[k - 1] \in {" ", "'", "\""}
    /\ source[k + Len(class)] \in {" ", "'", "\""}

\* the number of blocks open after the first j characters of the text
Depth(out, j) ==
  Cardinality({k \in 1..j : out[k] = "{"}) - Cardinality({k \in 1..j : out[k] = "}"})

\* the text between the brace the media-query text opens and its matching brace
BlockOf(out, media) ==
  LET open == IndexOf(out, media \o <<" ","{">>, 0)
      start == open + Len(media) + 2
      closes == {j \in (start + 1)..Len(out) :
                   out[j] = "}" /\ Depth(out, j) = Depth(out, start) - 1}
  IN  IF open < 0 \/ closes = {} THEN << >>
      ELSE SubSeq(out, start + 1, Nth(closes, 1) - 1)

\* the block holds a rule with the css body whose selector list has the selector
HasRule(block, selector, css) ==
  \E j \in 0..(Len(block) - Len(selector)) :
    /\ SubSeq(block, j + 1, j + Len(selector)) = selector
    /\ LET brace == IndexOf(block, << "{" >>, j + Len(selector))
       IN  /\ brace >= 0
           /\ brace = j + Len(selector) \/ block[j + Len(selector) + 1] = ","
           /\ StartsWith(Slice(block, brace + 1, Len(block)), css \o << "}" >>)

\* C9: for every breakpoint key b of the compiled configuration and every
\* rule name n of the table, after update() on a source in which the class b:n
\* stands between spaces or quotes, toString() holds the rule with selector
\* '.b\:n' and n's css body inside the block b's media-query text wraps.
C9_BreakpointClass ==
  (pc = "loaded" /\ toString.error = << >>) =>
    \A source \in scanned : \A b \in DOMAIN breakpoints : \A n \in DOMAIN rules :
      Stands(source, b \o << ":" >> \o n) =>
        HasRule(BlockOf(toString.css, breakpoints[b]),
                << "." >> \o b \o << "\\", ":" >> \o Escaped(n) \o rules[n].suffix,
                rules[n].css)

\* the breakpoint, specificity and css body of an output rule
GroupOf(rule) == << rule.breakpoint, rule.specificity, rule.css >>

\* the selectors of the output rules of a group, in the order they were added
GroupSelectors(g) ==
  LET members == {k \in 1..Len(outputRules) : GroupOf(outputRules[k]) = g}
  IN  [m \in 1..Cardinality(members) |-> outputRules[Nth(members, m)].selector]

Groups == {GroupOf(outputRules[k]) : k \in 1..Len(outputRules)}

\* the serialized text holds the rule text in the bucket of the breakpoint:
\* directly inside the block of its media query, or, without breakpoint,
\* directly inside the utilities layer
InBucket(out, bp, text) ==
  IF bp # << >>
  THEN \E j \in 0..(Len(BlockOf(out, breakpoints[bp])) - Len(text)) :
         /\ SubSeq(BlockOf(out, breakpoints[bp]), j + 1, j + Len(text)) = text
         /\ Depth(BlockOf(out, breakpoints[bp]), j) = 0
  ELSE \E j \in 0..(Len(out) - Len(text)) :
         /\ SubSeq(out, j + 1, j + Len(text)) = text
         /\ Depth(out, j) = 1

FirstMember(g) == Nth({k \in 1..Len(outputRules) : GroupOf(outputRules[k]) = g}, 1)

\* the serialized rule of a group
GroupText(g) == Join(GroupSelectors(g), << "," >>) \o << "{" >> \o g[3] \o << "}" >>

\* the offset at which the text stands directly inside the bucket of the
\* breakpoint (inside its media-query block, or unwrapped inside the layer),
\* -1 when it does not
BucketOffset(out, bp, text) ==
  LET block == IF bp # << >> THEN BlockOf(out, breakpoints[bp]) ELSE out
      depth == IF bp # << >> THEN 0 ELSE 1
      hits == {j \in 0..(Len(block) - Len(text)) :
                 SubSeq(block, j + 1, j + Len(text)) = text /\ Depth(block, j) = depth}
  IN  IF hits = {} THEN -1 ELSE Nth(hits, 1)

\* g comes before h in their bucket: lower specificity, or equal specificity
\* and a first member added earlier
ComesBefore(g, h) ==
  \/ g[2] < h[2]
  \/ g[2] = h[2] /\ FirstMember(g) < FirstMember(h)

LayerHead == <<"@","l","a","y","e","r"," ","u","t","i","l","i","t","i","e","s","{">>

RECURSIVE Fed(_)
Fed(order) ==
  IF order = << >> THEN [outputRules |-> << >>, skipClasses |-> {}]
  ELSE LET before == Fed(SubSeq(order, 1, Len(order) - 1))
       IN  updateClasses(sourceClasses(order[Len(order)]), rules, breakpoints,
                         before.outputRules, before.skipClasses)

Resolves(c) == makeOutputRule(c, rules, breakpoints) # << >>

\* the indices of the output rules a candidate was resolved to
ResolvedAt(c) ==
  {k \in 1..Len(outputRules) : << outputRules[k] >> = makeOutputRule(c, rules, breakpoints)}

\* the accumulated output rules are the successful resolutions of the distinct
\* candidates seen, each once, and update() with a text already seen changes
\* nothing
C13_Accumulated ==
  pc = "loaded" =>
    /\ \A s \in scanned : \A k \in 1..Len(sourceClasses(s)) : sourceClasses(s)[k] \in skipClasses
    /\ \A c \in skipClasses : Cardinality(ResolvedAt(c)) = IF Resolves(c) THEN 1 ELSE 0
    /\ Len(outputRules) = Cardinality({c \in skipClasses : Resolves(c)})
    /\ \A s \in scanned :
         LET again == updateClasses(sourceClasses(s), rules, breakpoints, outputRules,
                                    skipClasses)
         IN  /\ again.outputRules = outputRules
             /\ again.skipClasses = skipClasses
             /\ stringifyUtilities(breakpoints, again.outputRules) = toString

\* an update() appends to the output rules and adds to the candidates seen
C13_Grows ==
  /\ skipClasses \subseteq skipClasses'
  /\ Len(outputRules) <= Len(outputRules')
  /\ SubSeq(outputRules', 1, Len(outputRules)) = outputRules

\* C13: every distinct candidate is resolved at most once, on its first
\* appearance, whether it resolves or not; the output rules are exactly the
\* successful resolutions of the distinct candidates seen, they only grow by
\* appending, and an update() with a text already seen leaves the output rules
\* and the text of toString() unchanged.
C13_ResolvedOnce == [] C13_Accumulated /\ [][C13_Grows]_vars

\* C13: two texts were scanned, one of them holds a resolving candidate twice,
\* and a candidate that does not resolve has been seen
C13_Witness ==
  /\ pc = "loaded"
  /\ Cardinality(scanned) = 2
  /\ Len(outputRules) > 4
  /\ \E s \in scanned : \E c \in skipClasses :
       /\ Resolves(c)
       /\ Cardinality({k \in 1..Len(sourceClasses(s)) : sourceClasses(s)[k] = c}) > 1
  /\ \E c \in skipClasses : ~Resolves(c)


\* the sibling texts the accumulated output rules reference
SiblingTexts == {outputRules[k].sibling : k \in 1..Len(outputRules)} \ { << >> }

\* the output rules that reference the sibling text
Referencing(sibling) == {k \in 1..Len(outputRules) : outputRules[k].sibling = sibling}

RECURSIVE StringEnd(_, _, _)
StringEnd(css, quote, from) ==
  IF from > Len(css) THEN from
  ELSE IF css[from] = "\\" THEN StringEnd(css, quote, from + 2)
  ELSE IF css[from] = quote THEN from
  ELSE StringEnd(css, quote, from + 1)

\* n times the class
Repeat(class, n) == [k \in 1..n |-> class]

\* the classes of the characters from the 1-based index k on
RECURSIVE Classes(_, _)
Classes(css, k) ==
  IF k > Len(css) THEN << >>
  ELSE IF css[k] = "\\"
       THEN IF k = Len(css) THEN << "dangling" >>
            ELSE << "escape", "escaped" >> \o Classes(css, k + 2)
  ELSE IF css[k] \in {"'", "\""}
       THEN LET end == StringEnd(css, css[k], k + 1)
            IN  IF end > Len(css) THEN Repeat("unclosed", Len(css) - k + 1)
                ELSE Repeat("string", end - k + 1) \o Classes(css, end + 1)
  ELSE IF css[k] = "/" /\ k < Len(css) /\ css[k + 1] = "*"
       THEN LET found == IndexOf(css, << "*", "/" >>, k + 1)
            IN  IF found < 0 THEN Repeat("comment", Len(css) - k + 1)
                ELSE Repeat("comment", found + 2 - k + 1) \o Classes(css, found + 3)
  ELSE << "plain" >> \o Classes(css, k + 1)

\* the class of every character of the text
ClassOf(css) == Classes(css, 1)

\* the text without its whitespace
NoSpace(s) == SelectSeq(s, LAMBDA ch : ~IsSpace(ch))

\* the text without its comments and without its whitespace
Stripped(css) ==
  LET class == ClassOf(css)
      kept == {k \in 1..Len(css) : class[k] # "comment" /\ ~IsSpace(css[k])}
  IN  [m \in 1..Cardinality(kept) |-> css[Nth(kept, m)]]

\* the braces of the text outside strings, comments and escapes
Braces(css) ==
  LET class == ClassOf(css)
  IN  {k \in 1..Len(css) : class[k] = "plain" /\ css[k] \in {"{", "}"}}

\* every backslash escapes a character, every string literal is closed, and
\* the braces are balanced
WellFormed(css) ==
  LET class == ClassOf(css)
      depth(k) == Cardinality({j \in Braces(css) : j <= k /\ css[j] = "{"})
                  - Cardinality({j \in Braces(css) : j <= k /\ css[j] = "}"})
  IN  /\ \A k \in 1..Len(css) : class[k] \notin {"dangling", "unclosed"}
      /\ \A k \in 1..Len(css) : depth(k) >= 0
      /\ depth(Len(css)) = 0

\* the reader has returned the empty string
Exhausted == tokens # << >> /\ tokens[Len(tokens)] = << >>

\* C15: for a text with balanced braces and correctly escaped characters the
\* tokens of the successive read() calls, concatenated and without whitespace,
\* are the text without its comments and its whitespace.
C15_TokensPreserveInput ==
  (pc = "reading" /\ Exhausted /\ WellFormed(reader.css)) =>
    NoSpace(Flatten(tokens)) = Stripped(reader.css)


\* the characters the read() call of a step has consumed: 1-based indices
Scanned == {k \in (reader.i + 1)..reader'.i : k <= Len(reader.css)}

\* the 1-based index of the first ';' after the reader's place that is neither
\* escaped nor inside a string or a comment, 0 when there is none
FirstSemicolon ==
  LET at == {k \in (reader.i + 1)..Len(reader.css) :
               reader.css[k] = ";" /\ ClassOf(reader.css)[k] = "plain"}
  IN  IF at = {} THEN 0 ELSE Nth(at, 1)

\* every backslash escapes a character and every string literal is closed
Closed(css) == \A k \in 1..Len(css) : ClassOf(css)[k] \notin {"dangling", "unclosed"}

\* for a text with closed strings: the token of a step holds every escape
\* pair the call has consumed, and a statement token ends at the first ';'
\* that is neither escaped nor in a string
C16_Step ==
  (pc = "reading" /\ tokens' # tokens /\ Closed(reader.css)) =>
    /\ \A k \in Scanned :
         (ClassOf(reader.css)[k] = "escape" /\ k < Len(reader.css)) =>
           Includes(reader'.value, << reader.css[k], reader.css[k + 1] >>)
    /\ (reader'.value # << >> /\ reader'.value[Len(reader'.value)] = ";"
        /\ \E k \in Scanned : ClassOf(reader.css)[k] = "escape") =>
         reader'.i = FirstSemicolon

\* C16: a backslash outside strings and comments puts itself and the character
\* after it into the token; that character is not interpreted, and scanning
\* resumes after the pair, so that a statement token ends at the first ';'
\* that is neither escaped nor inside a string.
C16_EscapePair == [][C16_Step]_vars


\* no comment of the text opens with '/*/', which the comment branch of read()
\* takes for a complete comment
CommentsAgree(css) == ~Includes(css, << "/", "*", "/" >>)

\* the 1-based index of the first brace after the reader's place that is
\* outside strings, comments and escapes, 0 when there is none
FirstBrace ==
  LET at == {k \in Braces(reader.css) : k > reader.i}
  IN  IF at = {} THEN 0 ELSE Nth(at, 1)

\* the read() call at the reader's place reaches a brace before it ends a
\* statement
ReachesBrace == FirstBrace > 0 /\ (FirstSemicolon = 0 \/ FirstBrace < FirstSemicolon)

\* the characters between the reader's place and the first brace that are
\* neither whitespace nor part of a comment: 1-based indices
Pending ==
  {k \in (reader.i + 1)..(FirstBrace - 1) :
     ClassOf(reader.css)[k] # "comment" /\ ~IsSpace(reader.css[k])}

\* the pending text without its whitespace
PendingText == [m \in 1..Cardinality(Pending) |-> reader.css[Nth(Pending, m)]]

\* the brace tokens of a token sequence
BraceTokens(ts) == SelectSeq(ts, LAMBDA t : t \in { << "{" >>, << "}" >> })

\* the braces of the text outside strings, comments and escapes, in order
BraceTexts(css) ==
  [m \in 1..Cardinality(Braces(css)) |-> << css[Nth(Braces(css), m)] >>]

\* a read() call that reaches a brace returns the pending text and leaves the
\* brace to the next call, which returns it alone, or, with nothing pending,
\* returns the brace alone
C17_Step ==
  (pc = "reading" /\ tokens' # tokens /\ CommentsAgree(reader.css) /\ ReachesBrace) =>
    IF Pending # {}
    THEN /\ reader'.i = FirstBrace - 1
         /\ reader'.value # << >>
         /\ (\A k \in Pending : ClassOf(reader.css)[k] \notin {"escape", "escaped"}) =>
              NoSpace(reader'.value) = PendingText
         /\ read(reader.css, reader'.i) =
              [value |-> << reader.css[FirstBrace] >>, i |-> FirstBrace]
    ELSE /\ reader'.i = FirstBrace
         /\ reader'.value = << reader.css[FirstBrace] >>

\* the brace tokens returned up to exhaustion are the braces of the text
C17_Braces ==
  (pc = "reading" /\ Exhausted /\ CommentsAgree(reader.css)) =>
    BraceTokens(tokens) = BraceTexts(reader.css)

OnlySpaceAndComments(css) ==
  \A k \in 1..Len(css) : IsSpace(css[k]) \/ ClassOf(css)[k] = "comment"

\* the text is a selector that nothing follows: no whitespace and none of the
\* characters read() treats specially
BareSelector(css) ==
  /\ css # << >>
  /\ \A k \in 1..Len(css) :
       ~IsSpace(css[k]) /\ css[k] \notin {";", "{", "}", "\\", "\"", "'", "/"}

\* the tokens returned that are not the empty string
NonEmpty(ts) == SelectSeq(ts, LAMBDA t : t # << >>)

\* one read() call: before exhaustion it consumes at least one character, its
\* token is trimmed, and the empty string means that the input is exhausted;
\* after exhaustion it returns the empty string and consumes nothing
C18_Step ==
  (pc = "reading" /\ tokens' # tokens) =>
    /\ reader.i < Len(reader.css) => reader'.i > reader.i
    /\ reader.i >= Len(reader.css) => (reader'.value = << >> /\ reader'.i = reader.i)
    /\ reader'.value = << >> => reader'.i >= Len(reader.css)
    /\ reader'.value # << >> =>
         /\ ~IsSpace(reader'.value[1])
         /\ ~IsSpace(reader'.value[Len(reader'.value)])

\* the tokens of a reader: after the first empty string come only empty
\* strings, there are no more tokens than characters consumed, a text of
\* whitespace and comments yields no token and a bare selector one
C18_Tokens ==
  pc = "reading" =>
    /\ \A j \in 1..Len(tokens) : \A k \in 1..Len(tokens) :
         (j < k /\ tokens[j] = << >>) => tokens[k] = << >>
    /\ Len(NonEmpty(tokens)) <= reader.i
    /\ Len(NonEmpty(tokens)) <= Len(reader.css)
    /\ (OnlySpaceAndComments(reader.css) /\ CommentsAgree(reader.css)) =>
         NonEmpty(tokens) = << >>
    /\ (BareSelector(reader.css) /\ tokens # << >>) => NonEmpty(tokens) = << reader.css >>

C19_Step ==
  (pc = "loaded" /\ pc' = "built" /\ ctx.built /\ ctx.files = files) =>
    /\ ctx'.content = ctx.content
    /\ ctx'.filenames = ctx.filenames
    /\ ctx'.rules = ctx.rules

\* C19: two passes of the CSS processor over the same unchanged files, each
\* started with a rule table of equal content and the same base-layer text,
\* return the same css text and the same tracked filenames and leave rule
\* tables of equal content.
C19_PassRepeatable == [][C19_Step]_vars

\* C19: a context was built again from the files of the context before it, by
\* a pass that inlined imports and wrote authored rules to the table
C19_Witness ==
  /\ pc = "written"
  /\ ctx.again
  /\ Len(ctx.filenames) = 3
  /\ ctx.rules # InitialRules
  /\ Includes(ctx.content, LayerBaseOpen \o baseLayer)

\* the CSS builder's content is assigned by the return of the root call of
\* loadCSS and by nothing else, and a new builder starts with the empty text
C20_Content ==
  content' # content =>
    \/ pc = "loading" /\ pc' = "loaded"
    \/ pc = "written" /\ api = "writeCSS" /\ content' = << >> /\ ctx' = ctx

\* the output file is written by writeCSS alone, with the text of a context
\* that was built, and the context in use is replaced by one that was built
C20_Outfile ==
  /\ outfile' # outfile =>
       /\ pc = "built" /\ pc' = "written"
       /\ ctx.built /\ ctx.content = content
       /\ outfile' = [exists |-> TRUE, text |-> ctx.content \o toString.css]
  /\ ctx' # ctx => (pc = "loaded" /\ pc' = "built")
  /\ pc' = "failed" => (outfile' = outfile /\ ctx' = ctx /\ content' = content)

\* C20: when a pass throws no good output is replaced: toString() of a CSS
\* builder returns the text of its last successful update(), and writeCSS
\* writes the output file only when the whole build context was built, so
\* that a failed rebuild leaves the file written before untouched.
C20_GoodOutputKept == [][C20_Content /\ C20_Outfile]_vars

\* C20: a rebuild has failed: the output file holds the text of the context
\* in use, which was built before the files changed
C20_Witness ==
  /\ api = "writeCSS"
  /\ pc = "failed"
  /\ edits > 0
  /\ ctx.built /\ ctx.files # files
  /\ outfile.exists
  /\ StartsWith(outfile.text, ctx.content)
  /\ content # ctx.content


(***************************************************************************)
(* Properties of malformed input and of repeated passes, checked under     *)
(* SpecPass.                                                               *)
(***************************************************************************)

\* the structure of the text that follows an '@layer utilities' token, read
\* token by token from index i: "closed" when the block is closed by its
\* brace, "eof" when the input ends inside the block or inside a rule body,
\* and "fault" with the offending token when an opening brace is expected and
\* another token follows (the empty token at the end of the input) or when an
\* entry does not start with '.'
RECURSIVE LayerWalk(_, _, _, _)
LayerWalk(css, i, at, depth) ==
  LET t == read(css, i)
  IN  IF at \in {"open", "brace"}
      THEN IF t.value # << "{" >> THEN [kind |-> "fault", token |-> t.value]
           ELSE LayerWalk(css, t.i, IF at = "open" THEN "entry" ELSE "body", 0)
      ELSE IF t.value = << >> THEN [kind |-> "eof", token |-> << >>]
      ELSE IF at = "entry"
      THEN IF t.value = << "}" >> THEN [kind |-> "closed", token |-> << >>]
           ELSE IF ~StartsWith(t.value, << "." >>) THEN [kind |-> "fault", token |-> t.value]
           ELSE LayerWalk(css, t.i, "brace", 0)
      ELSE IF t.value = << "}" >>
      THEN IF depth = 0 THEN LayerWalk(css, t.i, "entry", 0)
           ELSE LayerWalk(css, t.i, "body", depth - 1)
      ELSE LayerWalk(css, t.i, "body", IF t.value = << "{" >> THEN depth + 1 ELSE depth)

\* the layer that follows the '@layer utilities' token the running call has read
Layer == LayerWalk(files[Top.filename], Tok.i, "open", 0)

AtUtilities == pc = "loading" /\ Kind = "utilities"

\* the input ends before the layer is closed
Unterminated == Layer.kind = "eof" \/ (Layer.kind = "fault" /\ Layer.token = << >>)

C21_Step ==
  (AtUtilities /\ Unterminated) =>
    /\ pc' = "failed"
    /\ error' # << >>
    /\ rules' = rules

\* C21: when the input ends before the closing brace of an '@layer utilities'
\* block, or before the closing brace of a rule body inside it, the pass fails
\* with an error raised to the caller; it does not go on to return css text,
\* and it registers none of the rules read so far.
C21_UnterminatedFails == [][C21_Step]_vars

C22_Step ==
  (AtUtilities /\ Layer.kind = "fault") =>
    /\ pc' = "failed"
    /\ Includes(error', Layer.token)
    /\ \/ /\ StartsWith(error', ErrExpectedBrace)
          /\ ~StartsWith(Layer.token, << "{" >>)
       \/ /\ StartsWith(error', ErrInvalidClassHead)
          /\ ~StartsWith(Layer.token, << "." >>)
    /\ stack' = << >>
    /\ content' = content

\* C22: inside an '@layer utilities' block a top-level entry whose token does
\* not start with '.', and an '@layer utilities' token or an entry selector
\* whose next token is not '{', make the pass throw at once with a message
\* that contains the offending token; the pass returns no css text (the
\* builder's content stays what it was) and the error reaches the caller of
\* makeCSSBuilder or update().
C22_MalformedLayerThrows == [][C22_Step]_vars

\* C22: the pass has thrown on the entry '.dim;', which is followed by '.dark'
\* and not by an opening brace
C22_Witness ==
  /\ pc = "failed"
  /\ error = ErrExpectedBrace \o <<".","d","a","r","k","{","\"">>
  /\ content = << >>

\* C23: every pass terminates, whatever files import which, files that import
\* themselves or each other included.  The branch a call of loadCSS takes
\* depends on the text of its file only, so that a call for a file made while
\* a call for the same file is running repeats it without end: a pass that
\* terminates never has one file twice among its running calls.
C23_PassTerminates ==
  \A j, k \in 1..Len(stack) : stack[j].filename = stack[k].filename => j = k

C29_Step ==
  (api = "makeCSSBuilder" /\ edits > 0 /\ pc = "loading" /\ pc' = "loaded") =>
    content' = content

\* C29: update() called again on one CSS builder while the files are
\* unchanged leaves toString() equal to its value after the update() before,
\* although the rule table now holds the rules the pass before has registered
\* from '@layer utilities' blocks (content keeps the text of the pass before
\* until the new pass returns).
C29_SecondPassSame == [][C29_Step]_vars


(***************************************************************************)
(* Properties of the generated rule table, checked under SpecRules.        *)
(***************************************************************************)

\* the prefixes of the color rules that genColors makes, and the gradient stops
GenColorPrefixes ==
  { <<"o","u","t","l","i","n","e">>, <<"t","e","x","t">>, <<"d","e","c","o","r","a","t","i","o","n">>, <<"b","g">>, <<"b","o","r","d","e","r">>, <<"b","o","r","d","e","r","-","x">>, <<"b","o","r","d","e","r","-","y">>,
    <<"b","o","r","d","e","r","-","t">>, <<"b","o","r","d","e","r","-","r">>, <<"b","o","r","d","e","r","-","b">>, <<"b","o","r","d","e","r","-","l">>, <<"a","c","c","e","n","t">>, <<"s","h","a","d","o","w">> }

StopPrefixes == { <<"f","r","o","m">>, <<"v","i","a">>, <<"t","o">> }

OpacitySteps == { 5 * n : n \in 0..20 }

\* N/100 in decimal notation without trailing zeros
Hundredths(N) ==
  IF N = 100 THEN <<"1">>
  ELSE IF N = 0 THEN <<"0">>
  ELSE <<"0",".">> \o << Digits[(N \div 10) + 1] >>
       \o (IF N % 10 = 0 THEN << >> ELSE << Digits[(N % 10) + 1] >>)

IsTriplet(v) == \A k \in 1..Len(v) : IsDigit(v[k]) \/ v[k] = " "

\* the color rules of the prefixes P are in the table
ColorVariants(P) ==
  \A c \in DOMAIN config.color, prefix \in P :
    /\ (prefix \o <<"-">> \o c) \in DOMAIN rules
    /\ \A N \in OpacitySteps :
         LET variant == prefix \o <<"-">> \o c \o <<"/">> \o numberText(N)
             companion == prefix \o <<"-","o","p","a","c","i","t","y","-">> \o numberText(N)
         IN  /\ variant \in DOMAIN rules
             /\ companion \in DOMAIN rules
             /\ rules[companion].css =
                  <<"-","-","t","w","-">> \o prefix \o <<"-","o","p","a","c","i","t","y",":"," ">> \o Hundredths(N) \o <<";">>
             /\ IsTriplet(config.color[c]) =>
                  Includes(rules[variant].css,
                           <<"r","g","b","(">> \o config.color[c] \o <<" ","/"," ">> \o Hundredths(N) \o <<")">>)

\* C24: for every color key c of the compiled configuration and every prefix
\* among outline, text, decoration, bg, border, border-x, border-y, border-t,
\* border-r, border-b, border-l, accent, shadow, from, via and to, the table
\* holds the base rule prefix-c, a rule prefix-c/N for every N in 0, 5, ...,
\* 100 and a rule prefix-opacity-N whose body only sets the opacity custom
\* property; for a color compiled to a triplet t the body of prefix-c/N
\* contains rgb(t / N/100).
C24_ColorVariants ==
  pc = "generated" => ColorVariants(GenColorPrefixes \cup StopPrefixes)

\* the names head-k of the table, for the heads given and every key k of a
\* section; a head ends before the dash
Named(heads, section) ==
  { n \in { h \o <<"-">> \o k : h \in heads, k \in DOMAIN section } : n \in DOMAIN rules }

\* the names head-c and head-c/N of the color rules
Colored(heads) ==
  Named(heads, config.color)
  \cup { h \o <<"-">> \o c \o <<"/">> \o numberText(N) :
         h \in heads, c \in DOMAIN config.color, N \in OpacitySteps }

\* the names head and head-k of a section with a DEFAULT key
Widths(heads, section) ==
  { h \o (IF k = <<"D","E","F","A","U","L","T">> THEN << >> ELSE <<"-">> \o k) : h \in heads, k \in DOMAIN section }

Family(all, axis, side) == [all |-> all, axis |-> axis, side |-> side]

\* the property families: the rules that set all sides, those that set one
\* axis and those that set one side
PaddingFamily ==
  Family(Named({<<"p">>}, config.spacing), Named({<<"p","x">>, <<"p","y">>}, config.spacing),
         Named({<<"p","t">>, <<"p","r">>, <<"p","b">>, <<"p","l">>}, config.spacing))

MarginFamily ==
  Family(Named({<<"m">>, <<"-","m">>}, config.spacing),
         Named({<<"m","x">>, <<"m","y">>, <<"-","m","x">>, <<"-","m","y">>}, config.spacing),
         Named({<<"m","t">>, <<"m","r">>, <<"m","b">>, <<"m","l">>, <<"-","m","t">>, <<"-","m","r">>, <<"-","m","b">>, <<"-","m","l">>}, config.spacing))

GapFamily ==
  Family(Named({<<"g","a","p">>}, config.spacing), Named({<<"g","a","p","x">>, <<"g","a","p","y">>}, config.spacing), {})

InsetFamily ==
  Family(Named({<<"i","n","s","e","t">>, <<"-","i","n","s","e","t">>}, config.size),
         Named({<<"i","n","s","e","t","-","x">>, <<"i","n","s","e","t","-","y">>, <<"-","i","n","s","e","t","-","x">>, <<"-","i","n","s","e","t","-","y">>}, config.size),
         Named({<<"t","o","p">>, <<"r","i","g","h","t">>, <<"b","o","t","t","o","m">>, <<"l","e","f","t">>,
                <<"-","t","o","p">>, <<"-","r","i","g","h","t">>, <<"-","b","o","t","t","o","m">>, <<"-","l","e","f","t">>}, config.size))

BorderWidthFamily ==
  Family(Widths({<<"b","o","r","d","e","r">>}, config.borderWidth),
         Widths({<<"b","o","r","d","e","r","-","x">>, <<"b","o","r","d","e","r","-","y">>}, config.borderWidth),
         Widths({<<"b","o","r","d","e","r","-","t">>, <<"b","o","r","d","e","r","-","r">>, <<"b","o","r","d","e","r","-","b">>, <<"b","o","r","d","e","r","-","l">>}, config.borderWidth))

BorderColorFamily ==
  Family(Colored({<<"b","o","r","d","e","r">>}), Colored({<<"b","o","r","d","e","r","-","x">>, <<"b","o","r","d","e","r","-","y">>}),
         Colored({<<"b","o","r","d","e","r","-","t">>, <<"b","o","r","d","e","r","-","r">>, <<"b","o","r","d","e","r","-","b">>, <<"b","o","r","d","e","r","-","l">>}))

RadiusFamily ==
  Family(Widths({<<"r","o","u","n","d","e","d">>}, config.borderRadius),
         Widths({<<"r","o","u","n","d","e","d","-","t">>, <<"r","o","u","n","d","e","d","-","r">>, <<"r","o","u","n","d","e","d","-","b">>, <<"r","o","u","n","d","e","d","-","l">>}, config.borderRadius),
         Widths({<<"r","o","u","n","d","e","d","-","t","l">>, <<"r","o","u","n","d","e","d","-","t","r">>, <<"r","o","u","n","d","e","d","-","b","r">>, <<"r","o","u","n","d","e","d","-","b","l">>}, config.borderRadius))

OverflowFamily ==
  Family({<<"o","v","e","r","f","l","o","w","-","a","u","t","o">>, <<"o","v","e","r","f","l","o","w","-","h","i","d","d","e","n">>},
         {<<"o","v","e","r","f","l","o","w","-","x","-","a","u","t","o">>, <<"o","v","e","r","f","l","o","w","-","x","-","h","i","d","d","e","n">>, <<"o","v","e","r","f","l","o","w","-","y","-","a","u","t","o">>, <<"o","v","e","r","f","l","o","w","-","y","-","h","i","d","d","e","n">>}, {})

SizeFamily ==
  Family(Named({<<"s","i","z","e">>}, config.size), Named({<<"w">>, <<"h">>}, config.size), {})

\* in a family the directional rules outrank the shorthands
Outranks(f) ==
  /\ \A d \in f.axis \cup f.side, s \in f.all : rules[d].specificity > rules[s].specificity
  /\ \A d \in f.side, a \in f.axis : rules[d].specificity > rules[a].specificity

\* C25: within each property family (padding, margin, gap, inset, border
\* width, border color, border radius, overflow, width and height against
\* size) every rule that sets one axis or one side has a strictly higher
\* specificity than every rule of the family that sets all sides, and every
\* rule that sets one side a strictly higher one than every rule that sets an
\* axis.
C25_DirectionalOutranks ==
  pc = "generated" =>
    \A f \in { PaddingFamily, MarginFamily, GapFamily, InsetFamily, BorderWidthFamily,
               BorderColorFamily, RadiusFamily, OverflowFamily, SizeFamily } : Outranks(f)


(***************************************************************************)
(* Properties of the watch mode's two kinds of change, checked under       *)
(* SpecWatch.                                                              *)
(***************************************************************************)

\* the candidates of the source files as they are now
ScannedClasses ==
  UNION { { sourceClasses(source)[k] : k \in 1..Len(sourceClasses(source)) } : source \in scanned }

IsPrefix(s, t) == Len(s) <= Len(t) /\ SubSeq(t, 1, Len(s)) = s

\* a change event of a CSS file: everything of the context is made anew
C26_Rebuild ==
  (api = "writeCSS" /\ pc = "written" /\ edits' # edits) =>
    /\ rules' = InitialRules
    /\ outputRules' = << >>
    /\ skipClasses' = {}
    /\ pc' \in {"loading", "failed"}

\* the new builder has scanned the sources as they are now, and nothing else
C26_Rescanned ==
  (api = "writeCSS" /\ pc = "loaded" /\ pc' = "built") =>
    /\ skipClasses' = ScannedClasses
    /\ outputRules' =
         updateClasses(sourceClasses(CHOOSE source \in scanned : TRUE), rules,
                       breakpoints, << >>, {}).outputRules

\* a change event of a source file: the builder in use is updated
C26_Source ==
  (api = "writeCSS" /\ pc = "written" /\ edits' = edits) =>
    /\ rules' = rules
    /\ content' = content
    /\ filenames' = filenames
    /\ ctx' = ctx
    /\ IsPrefix(outputRules, outputRules')
    /\ skipClasses' = skipClasses \cup ScannedClasses'
    /\ pc' = "built"

\* the accumulated output rules are lost at a change event of a CSS file only
C26_Exactly ==
  (api = "writeCSS" /\ ~IsPrefix(outputRules, outputRules')) =>
    (pc = "written" /\ edits' = edits + 1)

\* C26: in watch mode the state of the utility layer builder is discarded
\* exactly on full rebuilds: a change event for a tracked CSS file makes a new
\* context (rule table, processor pass, and a builder that scans the sources
\* again), while a change event for a source file only calls update() on the
\* builder in use with the content of that file and leaves the processor
\* output, the rule table and the output rules accumulated before as they are.
C26_DiscardedOnRebuildOnly ==
  [][C26_Rebuild /\ C26_Rescanned /\ C26_Source /\ C26_Exactly]_vars

\* C26: after a full rebuild and a change of the source file the output
\* written holds a candidate that the source file no longer has
C26_Witness ==
  /\ api = "writeCSS"
  /\ pc = "written"
  /\ edits > 0
  /\ ~(skipClasses \subseteq ScannedClasses)
  /\ \E k \in 1..Len(outputRules) : Includes(outfile.text, outputRules[k].selector)


(***************************************************************************)
(* Properties of candidates with several modifiers, checked under          *)
(* SpecBuild.                                                              *)
(***************************************************************************)

\* the modifiers of a candidate that are breakpoint keys, in the order they
\* are written
BreakpointModifiers(c) == SelectSeq(Modifiers(c), LAMBDA m : m \in DOMAIN breakpoints)

\* C27: when a candidate has more than one modifier that is a configured
\* breakpoint key, the breakpoint of its output rule is the last of them in
\* the candidate, the one nearest to the base name (md for sm:md:p-4).
C27_LastBreakpoint ==
  pc = "loaded" =>
    \A c \in skipClasses :
      (BaseName(c) \in DOMAIN rules /\ Len(BreakpointModifiers(c)) > 1) =>
        \E k \in 1..Len(outputRules) :
          /\ outputRules[k].selector = ExpectedSelector(c)
          /\ outputRules[k].breakpoint =
               BreakpointModifiers(c)[Len(BreakpointModifiers(c))]


\* the token '@apply n;'
ApplyOf(n) == ApplyPrefix \o << " " >> \o n \o << ";" >>

C28_Step ==
  \A n \in DOMAIN rules :
    (pc = "loading" /\ Kind = "other" /\ Tok.value = ApplyOf(n)) =>
      TopAfter.result = Top.result \o rules[n].css

\* C28: for every rule name n of the generated table (names are made of
\* lowercase letters, digits, '-', '/' and '.', as bg-green-600/20, p-0.5 and
\* -mx-1.5) the token '@apply n;' expands to exactly the css body stored under
\* n, and to nothing else.
C28_ApplyByName == [][C28_Step]_vars


\* the breakpoint keys in the order of the compiled configuration, after the
\* empty key of the rules without breakpoint
BucketOrder == << << >>, <<"s","m">>, <<"m","d">>, <<"l","g">>, <<"x","l">>, <<"2","x","l">> >>

BucketRank(bp) == CHOOSE k \in 1..Len(BucketOrder) : BucketOrder[k] = bp

\* the offset in the text of toString() at which the bucket of a breakpoint
\* starts
BucketStart(bp) ==
  IF bp # << >> THEN IndexOf(toString.css, breakpoints[bp] \o <<" ","{">>, 0)
  ELSE LET offsets == { BucketOffset(toString.css, << >>, GroupText(g)) :
                        g \in { h \in Groups : h[1] = << >> } }
       IN  Nth(offsets, 1)

\* C30: in toString() the bucket of the rules without breakpoint comes before
\* every media-query bucket, and the media-query buckets follow the order of
\* the breakpoint keys of the compiled configuration (ascending min-width for
\* the defaults), whatever the order in which the candidates were seen and
\* whatever the specificities of their rules.
C30_BucketsInConfigOrder ==
  toString.error = << >> =>
    \A g \in Groups : \A h \in Groups :
      BucketRank(g[1]) < BucketRank(h[1]) => BucketStart(g[1]) < BucketStart(h[1])

====
